---- MODULE Spec2Model ----
(***************************************************************************)
(* JobBot: the field-resolution cascade and the per-URL batch lifecycle of *)
(* server/runner.mjs (manual-review configuration); further down its      *)
(* stability wait poll by poll, its CSV quoting, its log initialisation,   *)
(* and the submit step of the auto-submit runner.                          *)
(*                                                                         *)
(* A page is the sequence of its form controls in document order.  A       *)
(* control is described by what the driver's queries can see of it:        *)
(*   tag   "text" | "combo" | "select" | "file" | "radio"                  *)
(*   attr  the registry key the control belongs to by its name/id/         *)
(*         placeholder attributes, matched by that key's structural        *)
(*         pattern number k ("none": no pattern matches)                   *)
(*   also  further registry keys whose substring patterns match the same   *)
(*         attributes although the control is not one of theirs            *)
(*   lab   the registry key whose label number k getByLabel finds on it    *)
(*   acc   the registry key whose label number k is in its accessible name *)
(*   near  the field type whose lower-case name is text next to it         *)
(*   grp   the registry key whose label number k names its enclosing group *)
(*   opt   the desired option text matches it (radio) / is an option of it *)
(*   url   it is URL-shaped (type=url, or "url" in name/placeholder)       *)
(*   vis   the driver reports it visible;  ed  it is enabled and editable  *)
(* The empty string stands for an empty or undefined JavaScript value.     *)
(***************************************************************************)
EXTENDS Integers, Sequences, FiniteSets, TLC

\* Bounds of the model.
MaxUrls == 2
NPat == 2
MaxControls == 2
MaxCount == 2
MaxLen == 3

VARIABLES
    pc,        \* the await at which runBatch is suspended ("done"/"rejected" once settled)
    inflight,  \* driver / file-system operations issued and not yet settled
    urls,      \* number of URLs of the batch (URL n is the n-th of the input list)
    i,         \* runBatch's loop index, 1-based
    user,      \* the profile loadUser returned
    status,    \* runBatch: let status
    notes,     \* runBatch: let notes
    meta,      \* runBatch: let meta (its source tag is enough here)
    tabOpen,   \* the single tab created at start is still open
    browserOpen,
    dom,       \* the page loaded in the tab (sequence of controls)
    calls,     \* resolver calls made by the FILL step of the current URL, in order
    steps,     \* operations runBatch has awaited for the current URL, in order
    hist,      \* per URL begun: the await whose exception was caught ("none")
               \* and the message of that exception,
               \* whether the tab-close event resolved its hold, the click calls
               \* made on the submit control and those that activated it
    row,       \* the row handed to the appendCsv call in flight
    csv,       \* rows appended to applied.csv by this batch, in order
    thrown,    \* the exception runBatch is rejecting with: the await it came from
               \* ("none": no exception) and its message
    previousFieldCount,  \* waitForFormStability: let previousFieldCount
    stableCount,         \* waitForFormStability: let stableCount
    elapsed,             \* waitForFormStability: Date.now() - startTime, in ms
    polled,              \* the control counts of the last polls, oldest first
    isStable,            \* what waitForFormStability returned ("pending": not yet)
    waiting,             \* the await waitForFormStability is suspended at
    autoSubmit,          \* runBatch(urls, options): !!options.autoSubmit
    stringValue,         \* escapeCsvValue: const stringValue, a sequence of characters
    csvLine,             \* appendCsv: const csvLine, a sequence of characters
    file,                \* applied.csv: whether it exists, and its lines
    running,             \* server.mjs: let running
    invoked,             \* the runBatch invocations the server made, in order
    responses            \* the answer given to each POST /jobs, in order of arrival

\* what the steps of a batch other than the log writes do not touch
aside == <<previousFieldCount, stableCount, elapsed, polled, isStable, waiting,
           autoSubmit, stringValue, csvLine, file, running, invoked, responses>>

vars == <<pc, inflight, urls, i, user, status, notes, meta, tabOpen, browserOpen,
          dom, calls, steps, hist, row, csv, thrown, aside>>

-----------------------------------------------------------------------------
(* Driver boundary *)

None == "none"

Ctl(tag, attr, lab, acc, k, vis, ed) ==
    [tag |-> tag, attr |-> attr, also |-> {}, lab |-> lab, acc |-> acc, near |-> None,
     grp |-> None, opt |-> FALSE, url |-> FALSE, k |-> k, vis |-> vis, ed |-> ed]

\* locator(...).first(): index of the first control of the page satisfying the
\* query, 0 when count() is 0.
FirstIn(page, S) ==
    IF S = {} THEN 0 ELSE CHOOSE e \in S : \A f \in S : e <= f

\* CSS patterns all start with "input", so they never match a <select>
IsInput(el) == el.tag \in {"text", "combo", "file", "radio"}

\* locator.fill: needs a visible, enabled, editable text input; raises otherwise
CanFill(el) == el.tag \in {"text", "combo"} /\ el.vis /\ el.ed

\* locator.pressSequentially: focuses the element and types; needs it visible
CanType(el) == el.vis

\* locator.selectOption: needs a <select> holding the option; raises otherwise
CanSelect(el) == el.tag = "select" /\ el.opt /\ el.vis /\ el.ed

\* locator.check / click on a radio
CanCheck(el) == el.tag = "radio" /\ el.vis /\ el.ed

\* fs: the only resume file there is
FileExists(path) == path = "/app/resume.pdf"

\* locator.setInputFiles: needs a file input (hidden ones included) and a file
CanUpload(el, path) == el.tag = "file" /\ FileExists(path)

Wr(e, op, val) == [el |-> e, op |-> op, val |-> val]

\* what a resolver call comes back with: the boolean returned, the probes made,
\* the write done, and whether an exception came out of the call instead
Miss(q) == [ok |-> FALSE, q |-> q, w |-> <<>>, threw |-> FALSE]
Hit(q, wr) == [ok |-> TRUE, q |-> q, w |-> <<wr>>, threw |-> FALSE]

MinOf(S) == CHOOSE k \in S : \A j \in S : k <= j

\* page.locator(selectors[k]).first() for the structural patterns of a field
BySelector(page, field, k) ==
    FirstIn(page, {e \in 1..Len(page) :
        /\ (page[e].attr = field \/ field \in page[e].also) /\ page[e].k = k
        /\ \/ IsInput(page[e])
           \/ field = "salary" /\ k = NPat /\ page[e].tag = "select"})

\* page.getByLabel(labels[k], {exact:false}).first()
ByLabel(page, field, k) ==
    FirstIn(page, {e \in 1..Len(page) : page[e].lab = field /\ page[e].k = k})

\* page.getByRole(role, {name: labels[k], exact:false}).first()
ByRole(page, roleTags, field, k) ==
    FirstIn(page, {e \in 1..Len(page) :
        page[e].tag \in roleTags /\ page[e].acc = field /\ page[e].k = k})

-----------------------------------------------------------------------------
(* Field resolvers.  alive = FALSE: the tab is closed, every probe raises.  *)

\* a "for (const x of list) try { probe; write; return true } catch {}" loop:
\* the first k whose probe finds a control the write succeeds on
LoopHits(good) == {k \in DOMAIN good : good[k]}

\* fillTextByLabel after its guard: the label pass, then the textbox-role pass
FillTextLoops(page, alive, field, value) ==
    LET labOk(k) == ByLabel(page, field, k) # 0 /\ CanFill(page[ByLabel(page, field, k)])
        rolOk(k) == ByRole(page, {"text"}, field, k) # 0
                    /\ CanFill(page[ByRole(page, {"text"}, field, k)])
        labHits == LoopHits([k \in 1..NPat |-> labOk(k)])
        rolHits == LoopHits([k \in 1..NPat |-> rolOk(k)])
    IN  IF ~alive THEN Miss(2 * NPat)
        ELSE IF labHits # {}
        THEN Hit(MinOf(labHits), Wr(ByLabel(page, field, MinOf(labHits)), "fill", value))
        ELSE IF rolHits # {}
        THEN Hit(NPat + MinOf(rolHits),
                 Wr(ByRole(page, {"text"}, field, MinOf(rolHits)), "fill", value))
        ELSE Miss(2 * NPat)

\* a resolver that lost its empty-value guard
FillTextUnguarded(page, alive, field, value) ==
    FillTextLoops(page, alive, field, value)

\* a resolver whose probes are outside any try block
FillTextNoTry(page, alive, field, value) ==
    LET res == FillTextLoops(page, alive, field, value)
    IN  IF value = "" THEN Miss(0)
        ELSE IF res.ok THEN res
        ELSE [res EXCEPT !.threw = TRUE]

fillTextByLabel(page, alive, field, value) ==
    IF value = "" THEN Miss(0)
    ELSE FillTextLoops(page, alive, field, value)

\* clickRadioByLabel after its guard: radios of a group named by a label, then
\* any radio of the page with the option name
ClickRadioLoops(page, alive, field, optionText) ==
    LET inGroup(k) == FirstIn(page, {e \in 1..Len(page) :
                          /\ page[e].grp = field /\ page[e].k = k
                          /\ page[e].tag = "radio" /\ page[e].opt})
        grpOk(k) == inGroup(k) # 0 /\ CanCheck(page[inGroup(k)])
        grpHits == LoopHits([k \in 1..NPat |-> grpOk(k)])
        anyRadio == FirstIn(page, {e \in 1..Len(page) :
                          page[e].tag = "radio" /\ page[e].opt})
    IN  IF ~alive THEN Miss(NPat + 1)
        ELSE IF grpHits # {}
        THEN Hit(2 * MinOf(grpHits), Wr(inGroup(MinOf(grpHits)), "check", optionText))
        ELSE IF anyRadio # 0 /\ CanCheck(page[anyRadio])
        THEN Hit(NPat + 1, Wr(anyRadio, "check", optionText))
        ELSE Miss(NPat + 1)

clickRadioByLabel(page, alive, field, optionText) ==
    IF optionText = "" THEN Miss(0)
    ELSE ClickRadioLoops(page, alive, field, optionText)

\* selectByLabel after its guard: selectOption by label, by value, then fill on
\* the labelled control; then fill / pressSequentially on a combobox
SelectLoops(page, alive, field, value) ==
    LET labOk(k) == /\ ByLabel(page, field, k) # 0
                    /\ \/ CanSelect(page[ByLabel(page, field, k)])
                       \/ CanFill(page[ByLabel(page, field, k)])
        labHits == LoopHits([k \in 1..NPat |-> labOk(k)])
        labEl == ByLabel(page, field, MinOf(labHits))
        cmbOk(k) == /\ ByRole(page, {"combo", "select"}, field, k) # 0
                    /\ \/ CanFill(page[ByRole(page, {"combo", "select"}, field, k)])
                       \/ CanType(page[ByRole(page, {"combo", "select"}, field, k)])
        cmbHits == LoopHits([k \in 1..NPat |-> cmbOk(k)])
        cmbEl == ByRole(page, {"combo", "select"}, field, MinOf(cmbHits))
    IN  IF ~alive THEN Miss(2 * NPat)
        ELSE IF labHits # {}
        THEN Hit(MinOf(labHits),
                 Wr(labEl, IF CanSelect(page[labEl]) THEN "select" ELSE "fill", value))
        ELSE IF cmbHits # {}
        THEN Hit(NPat + MinOf(cmbHits),
                 Wr(cmbEl, IF CanFill(page[cmbEl]) THEN "fill" ELSE "type", value))
        ELSE Miss(2 * NPat)

selectByLabel(page, alive, field, value) ==
    IF value = "" THEN Miss(0)
    ELSE SelectLoops(page, alive, field, value)

\* setFileByLabel after its guard: a labelled file input, then any file input
SetFileLoops(page, alive, field, filePath) ==
    LET labOk(k) == /\ ByLabel(page, field, k) # 0
                    /\ CanUpload(page[ByLabel(page, field, k)], filePath)
        labHits == LoopHits([k \in 1..NPat |-> labOk(k)])
        anyFile == FirstIn(page, {e \in 1..Len(page) : page[e].tag = "file"})
    IN  IF ~alive THEN Miss(NPat + 1)
        ELSE IF labHits # {}
        THEN Hit(MinOf(labHits), Wr(ByLabel(page, field, MinOf(labHits)), "upload", filePath))
        ELSE IF anyFile # 0 /\ CanUpload(page[anyFile], filePath)
        THEN Hit(NPat + 1, Wr(anyFile, "upload", filePath))
        ELSE Miss(NPat + 1)

setFileByLabel(page, alive, field, filePath) ==
    IF filePath = "" THEN Miss(0)
    ELSE SetFileLoops(page, alive, field, filePath)

\* findFirstVisibleSelector: the first pattern whose first match is visible,
\* 0 for null.  (isVisible raising counts as visible; count raising is skipped.)
findFirstVisibleSelector(page, alive, field) ==
    LET ok(k) == BySelector(page, field, k) # 0 /\ page[BySelector(page, field, k)].vis
        hits == LoopHits([k \in 1..NPat |-> ok(k)])
    IN  IF ~alive \/ hits = {} THEN 0 ELSE MinOf(hits)

\* fillGenericField after its guard: the structural patterns of the field type,
\* then an input next to text holding the field type's name
GenericLoops(page, alive, fieldType, value) ==
    LET selOk(k) == /\ BySelector(page, fieldType, k) # 0
                    /\ page[BySelector(page, fieldType, k)].vis
                    /\ CanFill(page[BySelector(page, fieldType, k)])
        selHits == LoopHits([k \in 1..NPat |-> selOk(k)])
        nearby == FirstIn(page, {e \in 1..Len(page) :
                      page[e].near = fieldType /\ IsInput(page[e])})
    IN  IF ~alive THEN Miss(NPat + 1)
        ELSE IF selHits # {}
        THEN Hit(MinOf(selHits),
                 Wr(BySelector(page, fieldType, MinOf(selHits)), "fill", value))
        ELSE IF nearby # 0 /\ page[nearby].vis /\ CanFill(page[nearby])
        THEN Hit(NPat + 1, Wr(nearby, "fill", value))
        ELSE Miss(NPat + 1)

\* a resolver whose miss comes out as an exception
GenericMissThrows(page, alive, fieldType, value) ==
    LET res == GenericLoops(page, alive, fieldType, value)
    IN  IF value = "" THEN Miss(0)
        ELSE IF res.ok THEN res
        ELSE [res EXCEPT !.threw = TRUE]

fillGenericField(page, alive, fieldType, value) ==
    IF value = "" THEN Miss(0)
    ELSE GenericLoops(page, alive, fieldType, value)

-----------------------------------------------------------------------------
(* The FILL step of runBatch: every resolver call, in the order of the code *)

\* JavaScript a || b on strings
Or(a, b) == IF a # "" THEN a ELSE b

\* one resolver call of the FILL step: who was called, for which registry key,
\* with which value, and what came back
Call(by, field, value, res) == [by |-> by, field |-> field, value |-> value, res |-> res]

\* await page.fill(selector, value).catch(() => {}): the write lands on the
\* first match of the selector when fill succeeds and is dropped otherwise
PageFill(page, alive, field, k, value) ==
    LET e == BySelector(page, field, k)
    IN  IF alive /\ e # 0 /\ CanFill(page[e]) THEN Hit(1, Wr(e, "fill", value)) ELSE Miss(1)

DoPageFill(page, alive, field, k, value) ==
    Call("page.fill", field, value, PageFill(page, alive, field, k, value))
DoFillText(page, alive, field, value) ==
    Call("fillTextByLabel", field, value, fillTextByLabel(page, alive, field, value))
DoGeneric(page, alive, fieldType, value) ==
    Call("fillGenericField", fieldType, value, fillGenericField(page, alive, fieldType, value))
DoSelect(page, alive, field, value) ==
    Call("selectByLabel", field, value, selectByLabel(page, alive, field, value))
DoRadio(page, alive, field, value) ==
    Call("clickRadioByLabel", field, value, clickRadioByLabel(page, alive, field, value))
DoFile(page, alive, field, value) ==
    Call("setFileByLabel", field, value, setFileByLabel(page, alive, field, value))

\* NAME FIELDS: first + last when both are found structurally, the strict
\* full-name control when neither is, label-driven first / last otherwise
NameFields(page, alive, u) ==
    LET firstSelector == findFirstVisibleSelector(page, alive, "firstName")
        lastSelector == findFirstVisibleSelector(page, alive, "lastName")
        fullSelector == findFirstVisibleSelector(page, alive, "fullName")
    IN  IF firstSelector # 0 /\ lastSelector # 0
        THEN << DoPageFill(page, alive, "firstName", firstSelector, u.firstName),
                DoPageFill(page, alive, "lastName", lastSelector, u.lastName) >>
        ELSE IF firstSelector = 0 /\ lastSelector = 0 /\ fullSelector # 0
        THEN << DoPageFill(page, alive, "fullName", fullSelector,
                           u.firstName \o " " \o u.lastName) >>
        ELSE << DoFillText(page, alive, "firstName", u.firstName),
                DoFillText(page, alive, "lastName", u.lastName) >>

\* "if (!xFilled) await ..."
Unless(filled, c) == IF filled THEN <<>> ELSE <<c>>

\* last resort for linkedin: the first URL-shaped input of the page
UrlFallback(page, alive, value) ==
    LET e == FirstIn(page, {x \in 1..Len(page) : page[x].url /\ IsInput(page[x])})
    IN  IF alive /\ e # 0 /\ CanFill(page[e]) THEN Hit(1, Wr(e, "fill", value)) ELSE Miss(1)

\* contact fields left to the structural and nearby-text resolution alone
ContactFieldsNoFallback(page, alive, u) ==
    << DoGeneric(page, alive, "email", u.email),
       DoGeneric(page, alive, "phone", u.phone),
       DoGeneric(page, alive, "salary", u.salary),
       DoGeneric(page, alive, "linkedin", Or(u.linkedin, "")),
       DoGeneric(page, alive, "github", Or(u.github, "")),
       DoGeneric(page, alive, "website", Or(u.website, "")) >>

\* CONTACT & SOCIAL LINKS
ContactFields(page, alive, u) ==
    LET email == DoGeneric(page, alive, "email", u.email)
        phone == DoGeneric(page, alive, "phone", u.phone)
        salary == DoGeneric(page, alive, "salary", u.salary)
        linkedin == DoGeneric(page, alive, "linkedin", Or(u.linkedin, ""))
        github == DoGeneric(page, alive, "github", Or(u.github, ""))
        website == DoGeneric(page, alive, "website", Or(u.website, ""))
    IN  << email, phone, salary, linkedin, github, website >>
        \o Unless(email.res.ok, DoFillText(page, alive, "email", u.email))
        \o Unless(phone.res.ok, DoFillText(page, alive, "phone", u.phone))
        \o Unless(salary.res.ok, DoFillText(page, alive, "salary", u.salary))
        \o Unless(linkedin.res.ok, DoFillText(page, alive, "linkedin", Or(u.linkedin, "")))
        \o Unless(github.res.ok, DoFillText(page, alive, "github", Or(u.github, "")))
        \o Unless(website.res.ok, DoFillText(page, alive, "personalUrl",
                                             Or(u.website, Or(u.linkedin, ""))))
        \o Unless(linkedin.res.ok \/ u.linkedin = "",
                  Call("urlFields.fill", "linkedin", u.linkedin,
                       UrlFallback(page, alive, u.linkedin)))

\* FILE UPLOAD, then ADDITIONAL QUESTIONS & SELECTS
OtherFields(page, alive, u) ==
    << DoFile(page, alive, "cv", u.resumePath) >>
    \o Unless(u.gender = "", DoRadio(page, alive, "gender", u.gender))
    \o << DoSelect(page, alive, "country", Or(u.location, "Germany")),
          DoSelect(page, alive, "tax", Or(u.taxResidence, "Germany")),
          DoFillText(page, alive, "notice", Or(u.noticePeriod, "Immediate")),
          DoFillText(page, alive, "salary", Or(u.salary, "Flexible")),
          DoFillText(page, alive, "referred", Or(u.referredBy, "")) >>

FillCalls(page, alive, u) ==
    NameFields(page, alive, u) \o ContactFields(page, alive, u) \o OtherFields(page, alive, u)

RECURSIVE WritesOf(_)
WritesOf(cs) ==
    IF cs = <<>> THEN <<>> ELSE Head(cs).res.w \o WritesOf(Tail(cs))

RECURSIVE ProbesOf(_)
ProbesOf(cs) ==
    IF cs = <<>> THEN 0 ELSE Head(cs).res.q + ProbesOf(Tail(cs))

-----------------------------------------------------------------------------
(* Inputs of a batch *)

Config(email, resume, rest) ==
    [firstName |-> "Jane", lastName |-> "Doe", email |-> email, resumePath |-> resume,
     phone |-> rest, salary |-> rest, linkedin |-> rest, github |-> rest,
     website |-> rest, gender |-> rest, location |-> rest, taxResidence |-> rest,
     noticePeriod |-> rest, referredBy |-> rest]

\* the contents config/user.json may have
Configs ==
    { Config("a@b.com", "resume.pdf", ""),
      Config("a@b.com", "resume.pdf", "x"),
      Config("a@b.com", "missing.pdf", ""),
      Config("", "resume.pdf", "x"),
      Config("a@b.com", "", "x"),
      [Config("a@b.com", "resume.pdf", "x") EXCEPT !.firstName = ""],
      [Config("a@b.com", "resume.pdf", "") EXCEPT !.lastName = ""] }

\* path.resolve(__dirname, '..', p)
ResolvePath(p) == "/app/" \o p

\* a profile taken as it comes
LoadUserNoCheck(cfg) == cfg \in Configs

\* loadUser: the required keys must be present; the resume path is made absolute
LoadUserOk(cfg) ==
    cfg.firstName # "" /\ cfg.lastName # "" /\ cfg.email # "" /\ cfg.resumePath # ""

loadUser(cfg) == [cfg EXCEPT !.resumePath = ResolvePath(cfg.resumePath)]

\* messages an exception may carry
Messages == {"", "net::ERR_FAILED"}

DefaultMeta == [company |-> "", title |-> "", source |-> "Other"]
PageMeta == [company |-> "acme", title |-> "Engineer", source |-> "Greenhouse"]

Text(attr, lab, acc) == Ctl("text", attr, lab, acc, 1, TRUE, TRUE)

\* the pages the URLs of a batch may load
SitePages ==
    { << >>,
      << Text("firstName", "firstName", None), Text("lastName", "lastName", None),
         Text("fullName", None, None) >>,
      << Text("fullName", None, None) >>,
      << Text(None, "firstName", None), Text(None, "lastName", None),
         Text("fullName", None, None) >>,
      << Text(None, "email", "email") >>,
      << Text("email", None, None), Ctl("file", None, "cv", None, 1, FALSE, TRUE) >>,
      << [Text("fullName", None, None) EXCEPT !.also = {"firstName", "lastName"}] >> }

-----------------------------------------------------------------------------------------------------------------------------------------------------
(* runBatch.  A state is runBatch suspended at an await; an action is the   *)
(* awaited operation settling plus the code that runs up to the next await. *)

\* resume from the awaited operation and suspend on the next one
Suspend(op) ==
    /\ pc' = op
    /\ inflight' = (inflight \ {pc}) \cup {op}
    /\ steps' = Append(steps, op)

\* go on with the same URL, its locals untouched
Continue(op) ==
    /\ Suspend(op)
    /\ UNCHANGED <<i, status, notes, meta, calls, row, thrown, hist>>

NoThrow == [from |-> "none", msg |-> ""]

\* an exception leaves runBatch outside its try / finally
Reject(msg) ==
    /\ pc' = "rejected"
    /\ inflight' = inflight \ {pc}
    /\ thrown' = [from |-> pc, msg |-> msg]
    /\ UNCHANGED <<steps, i, status, notes, meta, calls, row, hist>>

\* finally { await context.close(); ... }
Finally(msg) ==
    /\ thrown' = IF msg = "none" THEN NoThrow ELSE [from |-> pc, msg |-> msg]
    /\ Suspend("context.close")
    /\ UNCHANGED <<i, status, notes, meta, calls, row, hist>>

NoEvent ==
    [caught |-> "none", msg |-> "", closed |-> FALSE, clicks |-> 0, activated |-> 0]

\* loop body up to the first await: the pessimistic defaults, then page.goto
BeginUrl(n) ==
    /\ i' = n
    /\ status' = "error"
    /\ notes' = ""
    /\ meta' = DefaultMeta
    /\ calls' = << >>
    /\ hist' = Append(hist, NoEvent)
    /\ pc' = "goto"
    /\ inflight' = (inflight \ {pc}) \cup {"goto"}
    /\ steps' = << "goto" >>
    /\ UNCHANGED <<row, thrown>>

\* for (let i = 0; i < urls.length; i++)
LoopNext(n) == IF n <= urls THEN BeginUrl(n) ELSE Finally("none")

RowOf(st, nt) ==
    [url |-> i, status |-> st, notes |-> nt, company |-> meta.company,
     title |-> meta.title, source |-> meta.source, resume |-> user.resumePath]

\* the loop goes on to the next URL while the append is still in flight
RecordNoAwait(st, nt, h) ==
    IF i + 1 <= urls
    THEN /\ row' = RowOf(st, nt)
         /\ i' = i + 1
         /\ status' = "error"
         /\ notes' = ""
         /\ meta' = DefaultMeta
         /\ calls' = << >>
         /\ hist' = Append([hist EXCEPT ![i] = h], NoEvent)
         /\ pc' = "goto"
         /\ inflight' = (inflight \ {pc}) \cup {"appendCsv", "goto"}
         /\ steps' = << "goto" >>
         /\ UNCHANGED thrown
    ELSE /\ status' = st
         /\ notes' = nt
         /\ row' = RowOf(st, nt)
         /\ hist' = [hist EXCEPT ![i] = h]
         /\ Suspend("appendCsv")
         /\ UNCHANGED <<i, meta, calls, thrown>>

\* the try block is left with (status, notes): await appendCsv({...})
Record(st, nt, h) ==
    /\ status' = st
    /\ notes' = nt
    /\ row' = RowOf(st, nt)
    /\ hist' = [hist EXCEPT ![i] = h]
    /\ Suspend("appendCsv")
    /\ UNCHANGED <<i, meta, calls, thrown>>

\* an exception that leaves the URL loop instead of being recorded
CatchLeavesLoop(msg) == Finally(Or(msg, "unknown error"))

\* the message taken as it comes
CatchNoFallback(msg) ==
    Record("error", msg, [hist[i] EXCEPT !.caught = pc, !.msg = msg])

\* the notes set, the status left as it was
CatchKeepsStatus(msg) ==
    Record(status, Or(msg, "unknown error"), [hist[i] EXCEPT !.caught = pc, !.msg = msg])

\* catch (error) { status = 'error'; notes = error?.message || 'unknown error' }
Catch(msg) ==
    Record("error", Or(msg, "unknown error"), [hist[i] EXCEPT !.caught = pc, !.msg = msg])

\* the lines of applied.csv: the header, and a row with its status
HeaderLine == [kind |-> "header", status |-> ""]
RowLine(st) == [kind |-> "row", status |-> st]

\* the variables of aside but the file
asideFile ==
    <<previousFieldCount, stableCount, elapsed, polled, isStable, waiting,
      autoSubmit, stringValue, csvLine, running, invoked, responses>>

\* await ensureOutFiles(): the header is written when the file is absent
EnsureOutFiles ==
    /\ pc = "ensureOutFiles"
    /\ \/ /\ Continue("loadUser")
          /\ file' = IF file.exists THEN file
                     ELSE [exists |-> TRUE, lines |-> << HeaderLine >>]
       \/ /\ \E msg \in Messages : Reject(Or(msg, "EACCES"))
          /\ UNCHANGED file
    /\ UNCHANGED <<urls, user, tabOpen, browserOpen, dom, csv>>
    /\ UNCHANGED asideFile

LoadUser ==
    /\ pc = "loadUser"
    /\ \E cfg \in Configs :
          IF LoadUserOk(cfg)
          THEN user' = loadUser(cfg) /\ Continue("chromium.launch")
          ELSE user' = user /\ Reject("Missing required field")
    /\ UNCHANGED <<urls, tabOpen, browserOpen, dom, csv>>
    /\ UNCHANGED aside

Launch ==
    /\ pc = "chromium.launch"
    /\ \/ browserOpen' = TRUE /\ Continue("newContext")
       \/ \E msg \in Messages : browserOpen' = browserOpen /\ Reject(Or(msg, "launch failed"))
    /\ UNCHANGED <<urls, user, tabOpen, dom, csv>>
    /\ UNCHANGED aside

NewContext ==
    /\ pc = "newContext"
    /\ \/ Continue("newPage")
       \/ \E msg \in Messages : Reject(Or(msg, "context failed"))
    /\ UNCHANGED <<urls, user, tabOpen, browserOpen, dom, csv>>
    /\ UNCHANGED aside

NewPage ==
    /\ pc = "newPage"
    /\ \/ tabOpen' = TRUE /\ LoopNext(1)
       \/ \E msg \in Messages : tabOpen' = tabOpen /\ Reject(Or(msg, "page failed"))
    /\ UNCHANGED <<urls, user, browserOpen, dom, csv>>
    /\ UNCHANGED aside

\* await page.goto(url, ...): raises when the URL cannot be loaded, and always
\* on a closed tab
Goto ==
    /\ pc = "goto"
    /\ \/ /\ tabOpen
          /\ \E page \in SitePages : dom' = page
          /\ Continue("waitForTimeout")
       \/ \E msg \in Messages : Catch(msg) /\ UNCHANGED dom
    /\ UNCHANGED <<urls, user, tabOpen, browserOpen, csv>>
    /\ UNCHANGED aside

\* the settle delay followed by the stability wait, the metadata left out
SettleDelaySkipsMeta ==
    /\ pc = "waitForTimeout"
    /\ \/ tabOpen /\ Continue("waitForFormStability")
       \/ \E msg \in Messages : Catch(msg)
    /\ UNCHANGED <<urls, user, tabOpen, browserOpen, dom, csv>>
    /\ UNCHANGED aside

\* await page.waitForTimeout(1200)
SettleDelay ==
    /\ pc = "waitForTimeout"
    /\ \/ tabOpen /\ Continue("extractMeta")
       \/ \E msg \in Messages : Catch(msg)
    /\ UNCHANGED <<urls, user, tabOpen, browserOpen, dom, csv>>
    /\ UNCHANGED aside

\* a metadata extractor whose internal failure comes out as an exception
ExtractMetaRaises ==
    /\ pc = "extractMeta"
    /\ \/ /\ tabOpen
          /\ meta' = PageMeta
          /\ Suspend("waitForFormStability")
          /\ UNCHANGED <<i, status, notes, calls, row, thrown, hist>>
       \/ \E msg \in Messages : Catch(msg)
    /\ UNCHANGED <<urls, user, tabOpen, browserOpen, dom, csv>>
    /\ UNCHANGED aside

\* meta = await extractMeta(page): what the page gives, or the default when
\* anything inside raised
ExtractMeta ==
    /\ pc = "extractMeta"
    /\ \E m \in {PageMeta, DefaultMeta} :
          /\ tabOpen \/ m = DefaultMeta
          /\ meta' = m
    /\ Suspend("waitForFormStability")
    /\ UNCHANGED <<i, status, notes, calls, row, thrown, hist>>
    /\ UNCHANGED <<urls, user, tabOpen, browserOpen, dom, csv>>
    /\ UNCHANGED aside

\* const isStable = await waitForFormStability(page): either answer only
\* changes what is printed; then debugFormFields, which catches everything
Stability ==
    /\ pc = "waitForFormStability"
    /\ \/ tabOpen /\ \E result \in BOOLEAN : Continue("fill")
       \/ \E msg \in Messages : Catch(msg)
    /\ UNCHANGED <<urls, user, tabOpen, browserOpen, dom, csv>>
    /\ UNCHANGED aside

\* the calls made up to and including the first one an exception came out of
RECURSIVE UpToThrow(_)
UpToThrow(cs) ==
    IF cs = << >> THEN << >>
    ELSE IF Head(cs).res.threw THEN << Head(cs) >>
    ELSE << Head(cs) >> \o UpToThrow(Tail(cs))

\* every resolver call of the FILL step, then status = 'filled' and the banner;
\* an exception coming out of a call would end the try block there
Fill ==
    /\ pc = "fill"
    /\ \E every \in {FillCalls(dom, tabOpen, user)} :
       \E made \in {UpToThrow(every)} :
           /\ calls' = made
           /\ IF made # << >> /\ made[Len(made)].res.threw
              THEN /\ status' = "error"
                   /\ notes' = "unknown error"
                   /\ row' = RowOf("error", "unknown error")
                   /\ hist' = [hist EXCEPT ![i].caught = pc]
                   /\ Suspend("appendCsv")
                   /\ UNCHANGED <<i, meta, thrown>>
              ELSE /\ status' = "filled"
                   /\ notes' = "form filled, waiting for manual submission and tab close"
                   /\ Suspend("showHoldBanner")
                   /\ UNCHANGED <<i, meta, row, thrown, hist>>
    /\ UNCHANGED <<urls, user, tabOpen, browserOpen, dom, csv>>
    /\ UNCHANGED aside

\* await showHoldBanner(page, ...), then the wait for the tab to be closed
Banner ==
    /\ pc = "showHoldBanner"
    /\ \/ tabOpen /\ Continue("waitForEvent")
       \/ \E msg \in Messages : Catch(msg)
    /\ UNCHANGED <<urls, user, tabOpen, browserOpen, dom, csv>>
    /\ UNCHANGED aside

\* a wait that gives up by itself and is taken for a closed tab
HoldTimesOut ==
    /\ pc = "waitForEvent"
    /\ Record("submitted", "form submitted and tab closed by user", hist[i])
    /\ UNCHANGED <<urls, user, tabOpen, browserOpen, dom, csv>>
    /\ UNCHANGED aside

\* the operator closes the tab: page.waitForEvent('close', {timeout: 0}) resolves
HoldClosed ==
    /\ pc = "waitForEvent"
    /\ tabOpen
    /\ tabOpen' = FALSE
    /\ Record("submitted", "form submitted and tab closed by user",
              [hist[i] EXCEPT !.closed = TRUE])
    /\ UNCHANGED <<urls, user, browserOpen, dom, csv>>
    /\ UNCHANGED aside

\* an inner catch that only writes the notes
HoldErrorKeepsStatus ==
    /\ pc = "waitForEvent"
    /\ \E msg \in Messages :
          Record(status, "error waiting for tab close",
                 [hist[i] EXCEPT !.caught = pc, !.msg = msg])
    /\ UNCHANGED <<urls, user, tabOpen, browserOpen, dom, csv>>
    /\ UNCHANGED aside

\* the wait itself raises: the inner catch
HoldError ==
    /\ pc = "waitForEvent"
    /\ \E msg \in Messages :
          Record("error", "error waiting for tab close",
                 [hist[i] EXCEPT !.caught = pc, !.msg = msg])
    /\ UNCHANGED <<urls, user, tabOpen, browserOpen, dom, csv>>
    /\ UNCHANGED aside

\* an append that writes the file anew
AppendCsvOverwrites ==
    /\ "appendCsv" \in inflight
    /\ \/ /\ csv' = Append(csv, row)
          /\ file' = [exists |-> TRUE, lines |-> << RowLine(row.status) >>]
          /\ IF pc = "appendCsv"
             THEN LoopNext(i + 1)
             ELSE /\ inflight' = inflight \ {"appendCsv"}
                  /\ UNCHANGED <<pc, steps, i, status, notes, meta, calls, row, thrown, hist>>
       \/ /\ pc = "appendCsv"
          /\ \E msg \in Messages : Finally(Or(msg, "EIO"))
          /\ UNCHANGED <<csv, file>>
    /\ UNCHANGED <<urls, user, tabOpen, browserOpen, dom>>
    /\ UNCHANGED asideFile

\* an append whose failure leaves runBatch at once, past the finally block
AppendCsvNoFinally ==
    /\ "appendCsv" \in inflight
    /\ \/ /\ csv' = Append(csv, row)
          /\ file' = [exists |-> TRUE, lines |-> Append(file.lines, RowLine(row.status))]
          /\ IF pc = "appendCsv"
             THEN LoopNext(i + 1)
             ELSE /\ inflight' = inflight \ {"appendCsv"}
                  /\ UNCHANGED <<pc, steps, i, status, notes, meta, calls, row, thrown, hist>>
       \/ /\ pc = "appendCsv"
          /\ \E msg \in Messages : Reject(Or(msg, "EIO"))
          /\ UNCHANGED <<csv, file>>
    /\ UNCHANGED <<urls, user, tabOpen, browserOpen, dom>>
    /\ UNCHANGED asideFile

\* fs.appendFile settles: the row is in the file and runBatch, suspended on it,
\* goes round the loop; or it raises and the error leaves through finally.
\* (A settle nobody is suspended on only leaves the in-flight set.)
AppendCsv ==
    /\ "appendCsv" \in inflight
    /\ \/ /\ csv' = Append(csv, row)
          /\ file' = [exists |-> TRUE, lines |-> Append(file.lines, RowLine(row.status))]
          /\ IF pc = "appendCsv"
             THEN LoopNext(i + 1)
             ELSE /\ inflight' = inflight \ {"appendCsv"}
                  /\ UNCHANGED <<pc, steps, i, status, notes, meta, calls, row, thrown, hist>>
       \/ /\ pc = "appendCsv"
          /\ \E msg \in Messages : Finally(Or(msg, "EIO"))
          /\ UNCHANGED <<csv, file>>
    /\ UNCHANGED <<urls, user, tabOpen, browserOpen, dom>>
    /\ UNCHANGED asideFile

\* await context.close()
ContextClose ==
    /\ pc = "context.close"
    /\ tabOpen' = FALSE
    /\ Continue("browser.close")
    /\ UNCHANGED <<urls, user, browserOpen, dom, csv>>
    /\ UNCHANGED aside

\* await browser.close(); runBatch settles
BrowserClose ==
    /\ pc = "browser.close"
    /\ browserOpen' = FALSE
    /\ pc' = IF thrown = NoThrow THEN "done" ELSE "rejected"
    /\ inflight' = inflight \ {pc}
    /\ UNCHANGED <<steps, i, status, notes, meta, calls, row, thrown, hist>>
    /\ UNCHANGED <<urls, user, tabOpen, dom, csv>>
    /\ UNCHANGED aside

NoFile == [exists |-> FALSE, lines |-> << >>]

NoRow ==
    [url |-> 0, status |-> "", notes |-> "", company |-> "", title |-> "",
     source |-> "", resume |-> ""]

\* runBatch(urls) has been called and is suspended on ensureOutFiles
Init ==
    /\ pc = "ensureOutFiles"
    /\ inflight = {"ensureOutFiles"}
    /\ urls \in 1..MaxUrls
    /\ i = 0
    /\ user = Config("", "", "")
    /\ status = ""
    /\ notes = ""
    /\ meta = DefaultMeta
    /\ tabOpen = FALSE
    /\ browserOpen = FALSE
    /\ dom = << >>
    /\ calls = << >>
    /\ steps = << "ensureOutFiles" >>
    /\ hist = << >>
    /\ row = NoRow
    /\ csv = << >>
    /\ thrown = NoThrow
    /\ previousFieldCount = 0
    /\ stableCount = 0
    /\ elapsed = 0
    /\ polled = << >>
    /\ isStable = "pending"
    /\ waiting = "none"
    /\ autoSubmit = FALSE
    /\ stringValue = << >>
    /\ csvLine = << >>
    /\ running = FALSE
    /\ invoked = << >>
    /\ responses = << >>
    /\ file = NoFile

Next ==
    \/ EnsureOutFiles
    \/ LoadUser
    \/ Launch
    \/ NewContext
    \/ NewPage
    \/ Goto
    \/ SettleDelay
    \/ ExtractMeta
    \/ Stability
    \/ Fill
    \/ Banner
    \/ HoldClosed
    \/ HoldError
    \/ AppendCsv
    \/ ContextClose
    \/ BrowserClose

Spec == Init /\ [][Next]_vars

\* every awaited operation eventually settles, the wait for the tab-close event
\* included: the operator closes the tab of every hold (or the wait raises)
FairBatch == Spec /\ WF_vars(Next)

-----------------------------------------------------------------------------
(* Properties of the batch lifecycle *)

LoopOps ==
    {"goto", "waitForTimeout", "extractMeta", "waitForFormStability", "fill",
     "showHoldBanner", "waitForEvent", "appendCsv"}

PageOps == LoopOps \ {"appendCsv"}

Settling == {"context.close", "browser.close", "done", "rejected"}

\* C1: one row per URL, appended at the end of that URL's processing: while
\* URL i is processed the file holds the rows of URLs 1..i-1 and no other, and
\* a batch that entered the loop and had no append fail ends with one row for
\* every URL, row n being URL n's.
C1_OneRowPerUrl ==
    /\ pc \in LoopOps => Len(csv) = i - 1
    /\ (pc \in Settling /\ i >= 1 /\ thrown.from # "appendCsv") => Len(csv) = urls
    /\ \A n \in 1..Len(csv) : csv[n].url = n

C1_Witness ==
    /\ pc = "done"
    /\ Len(csv) = urls
    /\ \E n \in 1..Len(hist) : hist[n].closed
    /\ \E n \in 1..Len(hist) : hist[n].caught # "none"

\* C2: an exception caught for URL n is never what runBatch rejects with; URL
\* n's row has status error, and once it is appended URL n+1 has begun unless
\* n was the last URL.
C2_ExceptionStaysInLoop ==
    /\ thrown.from \notin PageOps
    /\ \A n \in 1..Len(hist) : hist[n].caught # "none" =>
          /\ n <= Len(csv) => /\ csv[n].status = "error"
                              /\ csv[n].url = n
                              /\ n < urls => i > n
          /\ (n > Len(csv) /\ thrown = NoThrow) =>
                 n = i /\ pc = "appendCsv" /\ row.status = "error"

C2_Witness ==
    /\ pc = "goto"
    /\ i >= 2
    /\ hist[i - 1].caught \in {"showHoldBanner", "waitForFormStability"}
    /\ csv[i - 1].status = "error"

\* C3: when page.goto raises, nothing but the append follows for that URL (no
\* settle delay, no metadata extraction, no stability poll, no resolver call,
\* no banner, no hold), and its row has status error and non-empty notes.
C3_NavigationFailure ==
    /\ \A n \in 1..Len(csv) : hist[n].caught = "goto" =>
          csv[n].status = "error" /\ csv[n].notes # ""
    /\ (pc \in LoopOps /\ hist[i].caught = "goto") =>
          /\ steps = << "goto", "appendCsv" >>
          /\ calls = << >>
          /\ meta = DefaultMeta
          /\ ~hist[i].closed
          /\ row.url = i /\ row.status = "error" /\ row.notes # ""

C3_Witness ==
    /\ Len(csv) >= 1
    /\ hist[1].caught = "goto"
    /\ csv[1].notes = "unknown error"

\* C4: at most one operation of the batch is in flight, and while a page
\* operation of URL i is in flight no append is, the rows of URLs 1..i-1
\* being in the file already.
C4_StrictlySequential ==
    /\ Cardinality(inflight) <= 1
    /\ pc \in PageOps => "appendCsv" \notin inflight /\ Len(csv) = i - 1

C4_Witness == pc = "goto" /\ i = 2 /\ Len(csv) = 1 /\ inflight = {"goto"}

\* C5 (as claimed): whenever the orchestrator navigates, the tab it navigates
\* is open.
C5_TabOpenAtNavigate == pc = "goto" => tabOpen

ClaimedOrder ==
    << "goto", "waitForTimeout", "waitForFormStability", "extractMeta", "fill",
       "showHoldBanner", "waitForEvent" >>

CodeOrder ==
    << "goto", "waitForTimeout", "extractMeta", "waitForFormStability", "fill",
       "showHoldBanner", "waitForEvent" >>

\* the operations awaited so far for the current URL are a prefix of the
\* order, the append (once issued) coming last
FollowsOrder(order) ==
    pc \in LoopOps =>
        LET body == IF pc = "appendCsv" THEN SubSeq(steps, 1, Len(steps) - 1) ELSE steps
        IN  /\ steps # << >> /\ steps[Len(steps)] = pc
            /\ Len(body) <= Len(order)
            /\ body = SubSeq(order, 1, Len(body))

\* C6 (as claimed): navigate, stability wait, metadata extraction, fill, hold,
\* record.
C6_ClaimedOrder == FollowsOrder(ClaimedOrder)

\* C6 (amended): navigate, metadata extraction, stability wait, fill, hold,
\* record; an exception goes from any of them straight to record.
C6_CodeOrder == FollowsOrder(CodeOrder)

C6_Witness == pc = "appendCsv" /\ Len(steps) = Len(CodeOrder) + 1 /\ hist[i].closed

Recorded == {"submitted", "clicked", "skipped", "error"}

\* C7: every row appended, and the row handed to the append in flight, has a
\* status of the closed set; the transient filled never reaches the file.
C7_RecordedStatus ==
    /\ \A n \in 1..Len(csv) : csv[n].status \in Recorded
    /\ pc = "appendCsv" => row.status \in Recorded /\ row.status = status

C7_Witness ==
    /\ Len(csv) >= 1
    /\ hist[1].caught \in {"showHoldBanner", "waitForEvent"}
    /\ csv[1].status = "error"

\* C8: a row says submitted only if the tab-close event resolved that URL's
\* hold; the hold is left only by that event or by an error of the wait, and
\* no row of the URL is appended or in flight while it is held.
C8_SubmittedOnlyOnClose ==
    /\ \A n \in 1..Len(csv) : csv[n].status = "submitted" => hist[n].closed
    /\ pc = "appendCsv" =>
          /\ row.status = "submitted" => hist[i].closed
          /\ (\E k \in 1..Len(steps) : steps[k] = "waitForEvent") =>
                 hist[i].closed \/ hist[i].caught = "waitForEvent"
    /\ pc = "waitForEvent" =>
          Len(csv) = i - 1 /\ "appendCsv" \notin inflight /\ status = "filled"

C8_Witness ==
    /\ Len(csv) >= 1
    /\ csv[1].status = "submitted"
    /\ hist[1].closed

IsFillable(el) == el.tag = "text" /\ el.vis /\ el.ed

\* C10 (as claimed): on a page with a first-name-labelled and a last-name-
\* labelled control, FILL writes firstName into the first, lastName into the
\* second, and nothing into a full-name-shaped control.
C10_FirstLastPreferred ==
    (/\ pc = "showHoldBanner"
     /\ tabOpen
     /\ \E e \in 1..Len(dom) : dom[e].lab = "firstName" /\ IsFillable(dom[e])
     /\ \E e \in 1..Len(dom) : dom[e].lab = "lastName" /\ IsFillable(dom[e]))
    => LET ws == WritesOf(calls)
       IN  /\ \E k \in 1..Len(ws) :
                  dom[ws[k].el].lab = "firstName" /\ ws[k].val = user.firstName
           /\ \E k \in 1..Len(ws) :
                  dom[ws[k].el].lab = "lastName" /\ ws[k].val = user.lastName
           /\ \A k \in 1..Len(ws) : dom[ws[k].el].attr # "fullName"

NameKeys == {"firstName", "lastName"}

\* C11 (as claimed): on a page with a strict full-name control and no control
\* of its own for the first or the last name, FILL writes firstName, a space,
\* lastName into the full-name control and writes neither name alone.
C11_FullNameOnly ==
    (/\ pc = "showHoldBanner"
     /\ tabOpen
     /\ \E e \in 1..Len(dom) : dom[e].attr = "fullName" /\ IsFillable(dom[e])
     /\ \A e \in 1..Len(dom) :
            dom[e].attr \notin NameKeys /\ dom[e].lab \notin NameKeys
            /\ dom[e].acc \notin NameKeys)
    => LET ws == WritesOf(calls)
       IN  /\ \E k \in 1..Len(ws) :
                  /\ dom[ws[k].el].attr = "fullName"
                  /\ ws[k].val = user.firstName \o " " \o user.lastName
           /\ \A k \in 1..Len(ws) : ws[k].val \notin {user.firstName, user.lastName}


\* the fields FILL goes through whatever the profile holds (gender is asked
\* for only when the profile has one; the name fields depend on the page)
FixedFields ==
    {"email", "phone", "salary", "linkedin", "github", "website", "cv", "country",
     "tax", "notice", "referred"}

\* C13: a resolver returning false never ends FILL: no URL is recorded because
\* of an exception of the FILL step, and when FILL is over every field of the
\* fixed sequence has been attempted, the status is filled and the hold banner
\* is next, also when every single call missed.
C13_MissNeverAborts ==
    /\ \A n \in 1..Len(hist) : hist[n].caught # "fill"
    /\ pc = "showHoldBanner" =>
          /\ status = "filled"
          /\ calls = FillCalls(dom, tabOpen, user)
          /\ \A f \in FixedFields : \E k \in 1..Len(calls) : calls[k].field = f
          /\ \A k \in 1..Len(calls) : ~calls[k].res.threw

C13_Witness ==
    /\ pc = "showHoldBanner"
    /\ tabOpen
    /\ user.phone # ""
    /\ status = "filled"
    /\ \A k \in 1..Len(calls) : ~calls[k].res.ok


\* C16: no exception comes out of extractMeta: no URL is recorded, and
\* runBatch never rejects, with an exception of that step; a row with status
\* error always has the exception of another step behind it, and a URL whose
\* extraction fell back to the default goes on to the stability wait.
C16_ExtractMetaNeverRaises ==
    /\ thrown.from # "extractMeta"
    /\ \A n \in 1..Len(hist) : hist[n].caught # "extractMeta"
    /\ \A n \in 1..Len(csv) :
          csv[n].status = "error" => hist[n].caught \in PageOps \ {"extractMeta"}
    /\ \A n \in 1..Len(csv) :
          hist[n].caught = "none" => csv[n].status # "error"

C16_Witness ==
    /\ Len(csv) >= 1
    /\ csv[1].source = DefaultMeta.source
    /\ csv[1].company = DefaultMeta.company
    /\ csv[1].status = "submitted"


\* C19: a profile without one of firstName, lastName, email, resumePath makes
\* runBatch reject at loadUser, with no browser launched, no URL begun and no
\* row appended; whatever runBatch does to a browser, a URL or the log, it
\* does with a profile that has all four.
C19_MissingKeyFailsFirst ==
    /\ thrown.from = "loadUser" =>
          /\ pc = "rejected"
          /\ ~browserOpen /\ ~tabOpen
          /\ i = 0 /\ hist = << >> /\ csv = << >>
          /\ steps = << "ensureOutFiles", "loadUser" >>
    /\ (browserOpen \/ tabOpen \/ i >= 1 \/ csv # << >>
        \/ pc \in {"chromium.launch", "newContext", "newPage"}) =>
          /\ user.firstName # "" /\ user.lastName # ""
          /\ user.email # "" /\ user.resumePath # ""

C19_Witness ==
    /\ pc = "rejected"
    /\ thrown = [from |-> "loadUser", msg |-> "Missing required field"]
    /\ ~browserOpen
    /\ csv = << >>


\* the page has a fillable control labelled as the field and nothing a
\* structural pattern or the nearby-text query of the field finds
OnlyByLabel(page, field) ==
    /\ \E e \in 1..Len(page) : page[e].lab = field /\ IsFillable(page[e])
    /\ \A e \in 1..Len(page) :
          page[e].attr # field /\ field \notin page[e].also /\ page[e].near # field

\* the writes of the value recorded by the calls made for a field
WritesFor(cs, field) ==
    {<<k, cs[k].res.w[1]>> : k \in {n \in 1..Len(cs) : cs[n].field = field /\ cs[n].res.ok}}

\* C23: on a loaded page whose email control is found by its accessible label
\* only, FILL writes the profile's email into that control through the label
\* pass of fillTextByLabel, once; and the row recorded for the URL has status
\* error only when a later await of the URL (banner, hold) raised.
C23_EmailByLabel ==
    (/\ pc \in {"showHoldBanner", "waitForEvent", "appendCsv"}
     /\ calls # << >>
     /\ hist[i].closed \/ tabOpen
     /\ OnlyByLabel(dom, "email"))
    => /\ \E k \in 1..Len(calls) :
             /\ calls[k].by = "fillTextByLabel" /\ calls[k].field = "email"
             /\ calls[k].res.ok /\ calls[k].res.q \in 1..NPat
             /\ calls[k].res.w = << Wr(ByLabel(dom, "email", calls[k].res.q),
                                       "fill", user.email) >>
       /\ Cardinality(WritesFor(calls, "email")) = 1
       /\ (pc = "appendCsv" /\ row.status = "error") =>
             hist[i].caught \in {"showHoldBanner", "waitForEvent"}

C23_Witness ==
    /\ pc = "appendCsv"
    /\ OnlyByLabel(dom, "email")
    /\ row.status = "submitted"
    /\ \E k \in 1..Len(calls) :
          /\ calls[k].by = "fillTextByLabel" /\ calls[k].field = "email"
          /\ calls[k].res.w = << Wr(1, "fill", "a@b.com") >>


\* C31: when the append of URL n's row fails, runBatch rejects with that error
\* after closing the context and the browser: URL n stays the last URL begun,
\* neither its row nor a later one is in the file, and nothing but the two
\* closes is awaited any more.
C31_AppendFailureAborts ==
    thrown.from = "appendCsv" =>
        /\ pc \in {"context.close", "browser.close", "rejected"}
        /\ thrown.msg # ""
        /\ Len(hist) = i /\ Len(csv) = i - 1
        /\ inflight \subseteq {"context.close", "browser.close"}
        /\ pc # "context.close" => ~tabOpen
        /\ pc = "rejected" => ~browserOpen

C31_Witness ==
    /\ pc = "rejected"
    /\ thrown.from = "appendCsv"
    /\ i < urls
    /\ ~browserOpen
    /\ Len(csv) = i - 1


\* C32 (as claimed): runBatch never settles with the browser it launched still
\* open, and every page operation happens while the browser is open.
C32_BrowserAlwaysReleased ==
    /\ pc \in {"done", "rejected"} => ~browserOpen
    /\ pc \in PageOps => browserOpen


\* C33 (as claimed): no URL is begun, and no file-upload call is made, with a
\* profile whose resume file does not exist.
C33_ResumeExistsBeforeUse ==
    /\ i >= 1 => FileExists(user.resumePath)
    /\ \A k \in 1..Len(calls) :
          calls[k].by = "setFileByLabel" => FileExists(calls[k].value)


\* C35 (as claimed): the notes of the row of a URL whose processing raised are
\* the message of the exception caught (the fixed text standing in for an
\* exception without a message), whichever await raised, the wait for the
\* tab-close event included.
C35_NotesAreTheMessage ==
    /\ \A n \in 1..Len(csv) :
          hist[n].caught # "none" => csv[n].notes = Or(hist[n].msg, "unknown error")
    /\ (pc = "appendCsv" /\ hist[i].caught # "none") =>
          row.notes = Or(hist[i].msg, "unknown error")


\* C36: a row with status error, appended or handed to the append in flight,
\* has non-empty notes: the pair the loop body starts with (error, empty
\* notes) is never recorded.
C36_ErrorRowsHaveNotes ==
    /\ \A n \in 1..Len(csv) : csv[n].status = "error" => csv[n].notes # ""
    /\ pc = "appendCsv" =>
          /\ row.status = "error" => row.notes # ""
          /\ row.status = status /\ row.notes = notes

\* an exception without a message was caught after the form was filled
C36_Witness ==
    /\ pc = "appendCsv"
    /\ hist[i].caught = "showHoldBanner"
    /\ hist[i].msg = ""
    /\ row.status = "error"
    /\ row.notes = "unknown error"


\* C37: the rows of a batch are in the order of its URLs (row n carries URL
\* n); the log only grows at its end, by the row handed to appendCsv, so that
\* the header and the rows appended earlier stay as they are.
C37_AppendOnlyInOrder ==
    /\ [](\A n \in 1..Len(csv) : csv[n].url = n)
    /\ [](file.exists =>
            /\ file.lines[1] = HeaderLine
            /\ Len(file.lines) = 1 + Len(csv)
            /\ \A n \in 1..Len(csv) : file.lines[n + 1] = RowLine(csv[n].status))
    /\ [][/\ file.exists =>
                /\ file'.exists
                /\ Len(file'.lines) >= Len(file.lines)
                /\ SubSeq(file'.lines, 1, Len(file.lines)) = file.lines
          /\ csv' # csv =>
                /\ pc = "appendCsv"
                /\ row.url = Len(csv) + 1
                /\ csv' = Append(csv, row)
                /\ file'.lines = Append(file.lines, RowLine(row.status))]_vars

C37_Witness ==
    /\ pc = "done"
    /\ Len(csv) = 2
    /\ csv[1].status = "error" /\ csv[2].status = "submitted"
    /\ file.lines = << HeaderLine, RowLine("error"), RowLine("submitted") >>


\* C38 (as claimed): when every awaited call returns or raises and every hold
\* is ended by the operator, the batch reaches its end with a row for every
\* URL and the browser closed.
C38_EndsWithEveryRow == <>(pc = "done" /\ Len(csv) = urls /\ ~browserOpen)

\* C38 (amended): under the same assumptions runBatch settles; when it is
\* fulfilled every URL has its row and the tab and the browser are closed; a
\* hold is left only by the tab-close event or by an error of the wait, and
\* while URL i is held the file has the rows of URLs 1..i-1 only.
C38_BatchTerminates ==
    /\ <>(pc \in {"done", "rejected"})
    /\ [](pc = "done" => Len(csv) = urls /\ ~browserOpen /\ ~tabOpen)
    /\ [](pc = "waitForEvent" => Len(csv) = i - 1 /\ Len(hist) = i)
    /\ [][(pc = "waitForEvent" /\ pc' # pc) =>
             /\ pc' = "appendCsv"
             /\ hist'[i].closed \/ hist'[i].caught = "waitForEvent"]_vars

\* the operator closed the tab of the first hold and the batch went on to its end
C38_Witness ==
    /\ pc = "done"
    /\ urls >= 2
    /\ Len(csv) = urls
    /\ hist[1].closed /\ csv[1].status = "submitted"
    /\ ~browserOpen


-----------------------------------------------------------------------------
(* One resolver call on an arbitrary small page *)

Tags == {"text", "select", "file", "radio"}

\* controls every query for the registry key "f" finds
ResolverShapes ==
    { [tag |-> t, attr |-> "f", also |-> {}, lab |-> "f", acc |-> "f", near |-> "f", grp |-> "f",
       opt |-> TRUE, url |-> FALSE, k |-> k, vis |-> v, ed |-> TRUE] :
      t \in Tags, k \in 1..NPat, v \in BOOLEAN }

RECURSIVE PagesUpTo(_, _)
PagesUpTo(shapes, n) ==
    IF n = 0 THEN { << >> }
    ELSE LET shorter == PagesUpTo(shapes, n - 1)
         IN  shorter \cup { Append(page, c) : page \in shorter, c \in shapes }

ResolverPages == PagesUpTo(ResolverShapes, MaxControls)

Values == {"", "Jane"}
Paths == {"", "/app/resume.pdf", "/app/missing.pdf"}

Resolved(c) ==
    /\ pc = "resolver"
    /\ pc' = "resolved"
    /\ calls' = << c >>
    /\ UNCHANGED <<inflight, urls, i, user, status, notes, meta, tabOpen, browserOpen, dom,
                   steps, hist, row, csv, thrown>>
    /\ UNCHANGED aside

CallFillTextByLabel ==
    \E value \in Values : Resolved(DoFillText(dom, tabOpen, "f", value))

CallFillGenericField ==
    \E value \in Values : Resolved(DoGeneric(dom, tabOpen, "f", value))

CallSelectByLabel ==
    \E value \in Values : Resolved(DoSelect(dom, tabOpen, "f", value))

CallClickRadioByLabel ==
    \E value \in Values : Resolved(DoRadio(dom, tabOpen, "f", value))

CallSetFileByLabel ==
    \E value \in Paths : Resolved(DoFile(dom, tabOpen, "f", value))

InitResolver ==
    /\ pc = "resolver"
    /\ inflight = {}
    /\ urls = 1
    /\ i = 0
    /\ user = Config("", "", "")
    /\ status = ""
    /\ notes = ""
    /\ meta = DefaultMeta
    /\ tabOpen \in BOOLEAN
    /\ browserOpen = TRUE
    /\ dom \in ResolverPages
    /\ calls = << >>
    /\ steps = << >>
    /\ hist = << >>
    /\ row = NoRow
    /\ csv = << >>
    /\ thrown = NoThrow
    /\ previousFieldCount = 0
    /\ stableCount = 0
    /\ elapsed = 0
    /\ polled = << >>
    /\ isStable = "pending"
    /\ waiting = "none"
    /\ autoSubmit = FALSE
    /\ stringValue = << >>
    /\ csvLine = << >>
    /\ running = FALSE
    /\ invoked = << >>
    /\ responses = << >>
    /\ file = NoFile

NextResolver ==
    \/ CallFillTextByLabel
    \/ CallFillGenericField
    \/ CallSelectByLabel
    \/ CallClickRadioByLabel
    \/ CallSetFileByLabel

SpecResolver == InitResolver /\ [][NextResolver]_vars

Resolvers ==
    {"fillTextByLabel", "fillGenericField", "selectByLabel", "clickRadioByLabel",
     "setFileByLabel"}

\* C9: a resolver called with an empty or undefined value returns false
\* without a single probe of the page and without any write.
C9_EmptyValueIsNoOp ==
    \A n \in 1..Len(calls) :
        (calls[n].by \in Resolvers /\ calls[n].value = "") =>
            /\ ~calls[n].res.ok
            /\ calls[n].res.q = 0
            /\ calls[n].res.w = << >>

C9_Witness ==
    /\ pc = "resolved"
    /\ calls[1].by = "fillTextByLabel"
    /\ calls[1].value = ""
    /\ \E e \in 1..Len(dom) : dom[e].lab = "f" /\ CanFill(dom[e])

\* the driver lets the write go through on this control
Accepts(el, wr) ==
    CASE wr.op = "fill" -> CanFill(el)
      [] wr.op = "type" -> CanType(el)
      [] wr.op = "select" -> CanSelect(el)
      [] wr.op = "check" -> CanCheck(el)
      [] wr.op = "upload" -> CanUpload(el, wr.val)

\* C12: no exception comes out of a resolver call, whatever the driver does
\* (a closed tab makes every probe raise, a control that cannot take the write
\* makes the write raise): the call returns a boolean, true only with exactly
\* one write that the driver completed, false with no write at all.
C12_NoExceptionEscapes ==
    \A n \in 1..Len(calls) :
        calls[n].by \in Resolvers =>
            /\ ~calls[n].res.threw
            /\ calls[n].res.ok \in BOOLEAN
            /\ calls[n].res.ok =>
                   /\ tabOpen
                   /\ Len(calls[n].res.w) = 1
                   /\ Accepts(dom[calls[n].res.w[1].el], calls[n].res.w[1])
            /\ ~calls[n].res.ok => calls[n].res.w = << >>

C12_Witness ==
    /\ pc = "resolved"
    /\ calls[1].by = "fillTextByLabel"
    /\ calls[1].value # ""
    /\ ~calls[1].res.ok
    /\ calls[1].res.q > 0
    /\ \/ ~tabOpen
       \/ \E e \in 1..Len(dom) : dom[e].lab = "f" /\ ~CanFill(dom[e])

-----------------------------------------------------------------------------
(* waitForFormStability, poll by poll, in the URL's try block of runBatch.  *)
(* Time is Date.now() - startTime in milliseconds.                          *)

maxWaitTime == 5000
PollInterval == 500
StableChecks == 3

\* what an awaited driver call may take on top of its nominal time
Durations == {0, PollInterval}

\* the last StableChecks polls
Keep(seq) == IF Len(seq) > StableChecks THEN Tail(seq) ELSE seq

\* page.evaluate settles with the number of controls: the comparison with the
\* previous count, return true at the third equality in a row, or the pause
Evaluate ==
    /\ pc = "waitForFormStability"
    /\ waiting = "page.evaluate"
    /\ \E currentFieldCount \in 0..MaxCount, d \in Durations :
          /\ polled' = Keep(Append(polled, currentFieldCount))
          /\ elapsed' = elapsed + d
          /\ IF currentFieldCount = previousFieldCount
             THEN /\ stableCount' = stableCount + 1
                  /\ IF stableCount + 1 >= StableChecks
                     THEN /\ isStable' = "true"
                          /\ waiting' = "none"
                          /\ previousFieldCount' = previousFieldCount
                          /\ Continue("fill")
                     ELSE /\ previousFieldCount' = currentFieldCount
                          /\ waiting' = "page.waitForTimeout"
                          /\ UNCHANGED <<isStable, pc, inflight, steps, i, status, notes,
                                         meta, calls, row, thrown, hist>>
             ELSE /\ stableCount' = 0
                  /\ previousFieldCount' = currentFieldCount
                  /\ waiting' = "page.waitForTimeout"
                  /\ UNCHANGED <<isStable, pc, inflight, steps, i, status, notes,
                                 meta, calls, row, thrown, hist>>
    /\ UNCHANGED <<urls, user, tabOpen, browserOpen, dom, csv>>
    /\ UNCHANGED <<autoSubmit, stringValue, csvLine, file, running, invoked, responses>>

\* a pause that does not move the clock
PauseClockStopped ==
    /\ pc = "waitForFormStability"
    /\ waiting = "page.waitForTimeout"
    /\ waiting' = "page.evaluate"
    /\ UNCHANGED <<elapsed, isStable, pc, inflight, steps, i, status, notes, meta,
                   calls, row, thrown, hist>>
    /\ UNCHANGED <<previousFieldCount, stableCount, polled>>
    /\ UNCHANGED <<urls, user, tabOpen, browserOpen, dom, csv>>
    /\ UNCHANGED <<autoSubmit, stringValue, csvLine, file, running, invoked, responses>>

\* page.waitForTimeout(500) settles, then the loop test: the next poll, or
\* return false once maxWaitTime has gone by
Pause ==
    /\ pc = "waitForFormStability"
    /\ waiting = "page.waitForTimeout"
    /\ \E d \in Durations :
          /\ elapsed' = elapsed + PollInterval + d
          /\ IF elapsed + PollInterval + d < maxWaitTime
             THEN /\ waiting' = "page.evaluate"
                  /\ UNCHANGED <<isStable, pc, inflight, steps, i, status, notes, meta,
                                 calls, row, thrown, hist>>
             ELSE /\ isStable' = "false"
                  /\ waiting' = "none"
                  /\ Continue("fill")
    /\ UNCHANGED <<previousFieldCount, stableCount, polled>>
    /\ UNCHANGED <<urls, user, tabOpen, browserOpen, dom, csv>>
    /\ UNCHANGED <<autoSubmit, stringValue, csvLine, file, running, invoked, responses>>

\* either driver call raises: waitForFormStability has no try block, the
\* exception reaches the catch of runBatch
PollRaises ==
    /\ pc = "waitForFormStability"
    /\ waiting # "none"
    /\ waiting' = "none"
    /\ \E msg \in Messages : Catch(msg)
    /\ UNCHANGED <<previousFieldCount, stableCount, elapsed, polled, isStable>>
    /\ UNCHANGED <<urls, user, tabOpen, browserOpen, dom, csv>>
    /\ UNCHANGED <<autoSubmit, stringValue, csvLine, file, running, invoked, responses>>

\* runBatch has just called waitForFormStability(page) for its first URL
InitStability ==
    /\ pc = "waitForFormStability"
    /\ inflight = {"waitForFormStability"}
    /\ urls = 1
    /\ i = 1
    /\ user \in {loadUser(cfg) : cfg \in {c \in Configs : LoadUserOk(c)}}
    /\ status = "error"
    /\ notes = ""
    /\ meta \in {PageMeta, DefaultMeta}
    /\ tabOpen = TRUE
    /\ browserOpen = TRUE
    /\ dom = << >>
    /\ calls = << >>
    /\ steps = << "goto", "waitForTimeout", "extractMeta", "waitForFormStability" >>
    /\ hist = << NoEvent >>
    /\ row = NoRow
    /\ csv = << >>
    /\ thrown = NoThrow
    /\ previousFieldCount = 0
    /\ stableCount = 0
    /\ elapsed = 0
    /\ polled = << >>
    /\ isStable = "pending"
    /\ waiting = "page.evaluate"
    /\ autoSubmit = FALSE
    /\ stringValue = << >>
    /\ csvLine = << >>
    /\ running = FALSE
    /\ invoked = << >>
    /\ responses = << >>
    /\ file = NoFile

NextStability ==
    \/ Evaluate
    \/ Pause
    \/ PollRaises

SpecStability == InitStability /\ [][NextStability]_vars

\* every awaited driver call settles
FairStability == SpecStability /\ WF_vars(NextStability)

\* the last StableChecks polls gave the same count
SameCounts ==
    /\ Len(polled) = StableChecks
    /\ \A j \in 1..Len(polled) : polled[j] = polled[1]

\* C14 (as claimed): waitForFormStability returns true at the first poll at
\* which the last 3 polls gave the same count (so it is never still waiting
\* after such a poll), and never returns true without 3 such polls.
C14_StableAtThirdPoll ==
    /\ pc = "waitForFormStability" => ~SameCounts
    /\ isStable = "true" => SameCounts

\* C15: waitForFormStability terminates; it returns false only once the
\* maximum wait has gone by; and after either result runBatch is suspended on
\* the FILL step with the status, the notes and the steps taken as they were.
C15_TerminatesAdvisory ==
    /\ <>(pc # "waitForFormStability")
    /\ [](isStable = "false" => elapsed >= maxWaitTime)
    /\ [](pc = "fill" =>
            /\ isStable \in {"true", "false"}
            /\ status = "error" /\ notes = ""
            /\ steps = << "goto", "waitForTimeout", "extractMeta",
                          "waitForFormStability", "fill" >>
            /\ hist = << NoEvent >>
            /\ thrown = NoThrow)

C15_Witness ==
    /\ pc = "fill"
    /\ isStable = "false"
    /\ stableCount = 0
    /\ polled[1] # polled[2]

-----------------------------------------------------------------------------
(* escapeCsvValue and the line appendCsv builds.  A string is the sequence  *)
(* of its characters.                                                       *)

Quote == "\""
Comma == ","
Newline == "\n"

Alphabet == {"a", Comma, Quote, Newline}

RECURSIVE StringsUpTo(_)
StringsUpTo(n) ==
    IF n = 0 THEN { << >> }
    ELSE LET shorter == StringsUpTo(n - 1)
         IN  shorter \cup { Append(str, c) : str \in shorter, c \in Alphabet }

\* stringValue.replace(/"/g, '""')
RECURSIVE DoubleQuotes(_)
DoubleQuotes(str) ==
    IF str = << >> THEN << >>
    ELSE (IF Head(str) = Quote THEN << Quote, Quote >> ELSE << Head(str) >>)
         \o DoubleQuotes(Tail(str))

\* /[",\n]/.test(stringValue)
NeedsQuoting(str) == \E j \in 1..Len(str) : str[j] \in {Quote, Comma, Newline}

\* quoting without doubling the quotes inside
EscapeNoDoubling(str) ==
    IF NeedsQuoting(str) THEN << Quote >> \o str \o << Quote >> ELSE str

escapeCsvValue(str) ==
    IF NeedsQuoting(str) THEN << Quote >> \o DoubleQuotes(str) \o << Quote >> ELSE str

\* [...].map(escapeCsvValue).join(',')
RECURSIVE JoinEscaped(_)
JoinEscaped(fields) ==
    IF fields = << >> THEN << >>
    ELSE IF Len(fields) = 1 THEN escapeCsvValue(fields[1])
    ELSE escapeCsvValue(Head(fields)) \o << Comma >> \o JoinEscaped(Tail(fields))

\* the fields of a row that matter here: version, notes, job id
FieldsOf(nt) == << << "1" >>, nt, << >> >>

\* appendCsv up to its await: csvLine = [...].map(escapeCsvValue).join(',') + '\n'
BuildCsvLine ==
    /\ pc = "appendCsv"
    /\ inflight = {}
    /\ csvLine' = JoinEscaped(FieldsOf(stringValue)) \o << Newline >>
    /\ inflight' = {"fs.appendFile"}
    /\ UNCHANGED <<pc, urls, i, user, status, notes, meta, tabOpen, browserOpen, dom,
                   calls, steps, hist, row, csv, thrown>>
    /\ UNCHANGED <<previousFieldCount, stableCount, elapsed, polled, isStable, waiting,
                   autoSubmit, stringValue, file, running, invoked, responses>>

\* appendCsv has been called with a row whose notes are stringValue
InitCsv ==
    /\ pc = "appendCsv"
    /\ inflight = {}
    /\ urls = 1
    /\ i = 1
    /\ user = Config("", "", "")
    /\ status = "error"
    /\ notes = ""
    /\ meta = DefaultMeta
    /\ tabOpen = FALSE
    /\ browserOpen = FALSE
    /\ dom = << >>
    /\ calls = << >>
    /\ steps = << >>
    /\ hist = << >>
    /\ row = NoRow
    /\ csv = << >>
    /\ thrown = NoThrow
    /\ previousFieldCount = 0
    /\ stableCount = 0
    /\ elapsed = 0
    /\ polled = << >>
    /\ isStable = "pending"
    /\ waiting = "none"
    /\ autoSubmit = FALSE
    /\ stringValue \in StringsUpTo(MaxLen)
    /\ csvLine = << >>
    /\ running = FALSE
    /\ invoked = << >>
    /\ responses = << >>
    /\ file = NoFile

NextCsv == BuildCsvLine

SpecCsv == InitCsv /\ [][NextCsv]_vars

\* A CSV reader (RFC 4180): the records of a text, each the sequence of its
\* fields.  mode: "start" of a field, "plain" inside an unquoted field,
\* "quoted" inside a quoted one, "quote" just after a quote met inside it.
RECURSIVE ReadCsv(_, _, _, _, _)
ReadCsv(text, mode, fld, rec, recs) ==
    IF text = << >>
    THEN IF mode = "start" /\ rec = << >> THEN recs ELSE Append(recs, Append(rec, fld))
    ELSE LET c == Head(text)
             rest == Tail(text)
         IN  IF mode = "quoted"
             THEN IF c = Quote THEN ReadCsv(rest, "quote", fld, rec, recs)
                  ELSE ReadCsv(rest, "quoted", Append(fld, c), rec, recs)
             ELSE IF c = Quote /\ mode = "quote"
             THEN ReadCsv(rest, "quoted", Append(fld, Quote), rec, recs)
             ELSE IF c = Quote /\ mode = "start"
             THEN ReadCsv(rest, "quoted", fld, rec, recs)
             ELSE IF c = Comma
             THEN ReadCsv(rest, "start", << >>, Append(rec, fld), recs)
             ELSE IF c = Newline
             THEN ReadCsv(rest, "start", << >>, << >>, Append(recs, Append(rec, fld)))
             ELSE ReadCsv(rest, "plain", Append(fld, c), rec, recs)

QuotesIn(str) == Cardinality({j \in 1..Len(str) : str[j] = Quote})

\* C17: the line appendCsv builds reads back as one record whose fields are
\* the original strings; a value with a comma, a quote or a newline is written
\* between quotes with every quote inside doubled, any other value as it is.
C17_CsvRoundTrip ==
    inflight = {"fs.appendFile"} =>
        /\ ReadCsv(csvLine, "start", << >>, << >>, << >>) = << FieldsOf(stringValue) >>
        /\ LET written == SubSeq(csvLine, 3, Len(csvLine) - 2)
           IN  IF NeedsQuoting(stringValue)
               THEN /\ Len(written) = Len(stringValue) + QuotesIn(stringValue) + 2
                    /\ written[1] = Quote /\ written[Len(written)] = Quote
                    /\ ReadCsv(written, "start", << >>, << >>, << >>)
                           = << << stringValue >> >>
               ELSE written = stringValue

C17_Witness ==
    /\ inflight = {"fs.appendFile"}
    /\ \E j \in 1..Len(stringValue) : stringValue[j] = Comma
    /\ \E j \in 1..Len(stringValue) : stringValue[j] = Quote
    /\ \E j \in 1..Len(stringValue) : stringValue[j] = Newline

-----------------------------------------------------------------------------
(* applied.csv under ensureOutFiles and appendCsv, called one after the     *)
(* other as runBatch does: appends only after a first ensureOutFiles.  Here *)
(* csv is the rows appended to the file so far, by earlier runs too.        *)

Statuses == {"submitted", "clicked", "skipped", "error"}

LogFrame ==
    UNCHANGED <<inflight, urls, i, user, status, notes, meta, tabOpen, browserOpen, dom,
                calls, steps, hist, row, thrown, previousFieldCount, stableCount,
                elapsed, polled, isStable, waiting, autoSubmit, stringValue, csvLine,
                running, invoked, responses>>

\* await fs.mkdir(OUT_DIR, {recursive: true}).catch(() => {})
Mkdir ==
    /\ pc = "fs.mkdir"
    /\ pc' = "fs.access"
    /\ UNCHANGED <<file, csv>>
    /\ LogFrame

\* an initialisation that writes the header whether the file is there or not
AccessIgnored ==
    /\ pc = "fs.access"
    /\ pc' = "fs.writeFile"
    /\ UNCHANGED <<file, csv>>
    /\ LogFrame

\* try { await fs.access(CSV_PATH) } catch { ... }: it raises when the file is
\* absent, and only then is the header written
Access ==
    /\ pc = "fs.access"
    /\ pc' = IF file.exists THEN "idle" ELSE "fs.writeFile"
    /\ UNCHANGED <<file, csv>>
    /\ LogFrame

\* await fs.writeFile(CSV_PATH, csvHeader, 'utf8'): the file is the header alone
WriteFile ==
    /\ pc = "fs.writeFile"
    /\ \/ /\ file' = [exists |-> TRUE, lines |-> << HeaderLine >>]
          /\ pc' = "idle"
       \/ /\ pc' = "rejected"
          /\ UNCHANGED file
    /\ UNCHANGED csv
    /\ LogFrame

\* the next call of ensureOutFiles
CallEnsureOutFiles ==
    /\ pc = "idle"
    /\ pc' = "fs.mkdir"
    /\ UNCHANGED <<file, csv>>
    /\ LogFrame

\* appendCsv(row): fs.appendFile adds the line at the end (creating the file
\* if need be)
CallAppendCsv ==
    /\ pc = "idle"
    /\ Len(csv) < MaxUrls + 1
    /\ \E st \in Statuses :
          /\ file' = [exists |-> TRUE, lines |-> Append(file.lines, RowLine(st))]
          /\ csv' = Append(csv, RowLine(st))
    /\ UNCHANGED pc
    /\ LogFrame

\* a process has just called ensureOutFiles; the file is absent, or as earlier
\* runs left it
InitLog ==
    /\ pc = "fs.mkdir"
    /\ inflight = {}
    /\ urls = MaxUrls
    /\ i = 0
    /\ user = Config("", "", "")
    /\ status = ""
    /\ notes = ""
    /\ meta = DefaultMeta
    /\ tabOpen = FALSE
    /\ browserOpen = FALSE
    /\ dom = << >>
    /\ calls = << >>
    /\ steps = << >>
    /\ hist = << >>
    /\ row = NoRow
    /\ thrown = NoThrow
    /\ previousFieldCount = 0
    /\ stableCount = 0
    /\ elapsed = 0
    /\ polled = << >>
    /\ isStable = "pending"
    /\ waiting = "none"
    /\ autoSubmit = FALSE
    /\ stringValue = << >>
    /\ csvLine = << >>
    /\ running = FALSE
    /\ invoked = << >>
    /\ responses = << >>
    /\ \/ file = NoFile /\ csv = << >>
       \/ \E st \in Statuses :
             /\ csv \in {<< >>, << RowLine(st) >>}
             /\ file = [exists |-> TRUE, lines |-> << HeaderLine >> \o csv]

NextLog ==
    \/ Mkdir
    \/ Access
    \/ WriteFile
    \/ CallEnsureOutFiles
    \/ CallAppendCsv

SpecLog == InitLog /\ [][NextLog]_vars

\* C18: however many times ensureOutFiles and appendCsv are called one after
\* the other, once ensureOutFiles has returned the file exists, its first
\* line is the header, no other line is a header, and the lines after it are
\* exactly the rows appended so far, in order.
C18_HeaderOnce ==
    /\ pc = "idle" => file.exists
    /\ file.exists =>
          /\ file.lines[1] = HeaderLine
          /\ Cardinality({j \in 1..Len(file.lines) : file.lines[j].kind = "header"}) = 1
          /\ file.lines = << HeaderLine >> \o csv
    /\ ~file.exists => csv = << >>

\* a later call of ensureOutFiles looking at a file that rows were appended to
\* since the call before
C18_Witness ==
    /\ pc = "fs.access"
    /\ Len(csv) >= 2
    /\ file.lines = << HeaderLine >> \o csv

-----------------------------------------------------------------------------
(* The auto-submit runner: runBatch(urls, options).  Same start-up, settle  *)
(* delay, append and shutdown; no stability wait, no banner and no hold;    *)
(* after FILL the submit step.                                              *)

Submit(vis, ed) == Ctl("submit", None, None, None, 1, vis, ed)

\* the pages the URLs of an auto-submit batch may load
AutoPages ==
    { << >>,
      << Submit(TRUE, TRUE) >>,
      << Text(None, "email", "email"), Submit(TRUE, TRUE) >>,
      << Submit(TRUE, FALSE) >>,
      << Submit(FALSE, TRUE), Submit(TRUE, TRUE) >>,
      << Text("fullName", None, None) >> }

\* page.locator('button:has-text("Apply"), ..., input[type=submit]').first()
SubmitControl(page) == FirstIn(page, {e \in 1..Len(page) : page[e].tag = "submit"})

\* locator.click: needs the control visible and enabled; raises otherwise
CanClick(el) == el.vis /\ el.ed

\* the FILL step of this runner: names, then label-driven contact fields, then
\* upload and questions
AutoFillCalls(page, alive, u) ==
    NameFields(page, alive, u)
    \o << DoFillText(page, alive, "email", u.email),
          DoFillText(page, alive, "phone", u.phone),
          DoFillText(page, alive, "personalUrl", Or(u.website, Or(u.linkedin, ""))),
          DoFillText(page, alive, "linkedin", Or(u.linkedin, "")) >>
    \o OtherFields(page, alive, u)

AutoFrame ==
    /\ UNCHANGED <<urls, user, tabOpen, browserOpen, csv>>
    /\ UNCHANGED aside

AutoGoto ==
    /\ pc = "goto"
    /\ \/ /\ tabOpen
          /\ \E page \in AutoPages : dom' = page
          /\ Continue("waitForTimeout")
       \/ \E msg \in Messages : Catch(msg) /\ UNCHANGED dom
    /\ AutoFrame

\* meta = await extractMeta(page), then straight to the name fields
AutoExtractMeta ==
    /\ pc = "extractMeta"
    /\ \E m \in {PageMeta, DefaultMeta} :
          /\ tabOpen \/ m = DefaultMeta
          /\ meta' = m
    /\ Suspend("fill")
    /\ UNCHANGED <<i, status, notes, calls, row, thrown, hist, dom>>
    /\ AutoFrame

\* every resolver call of the FILL step, then await submit.count()
AutoFill ==
    /\ pc = "fill"
    /\ calls' = AutoFillCalls(dom, tabOpen, user)
    /\ Suspend("submit.count")
    /\ UNCHANGED <<i, status, notes, meta, row, thrown, hist, dom>>
    /\ AutoFrame

\* a submit step that clicks whatever the flag says
SubmitCountIgnoresFlag ==
    /\ pc = "submit.count"
    /\ \/ /\ tabOpen
          /\ IF SubmitControl(dom) # 0
             THEN /\ hist' = [hist EXCEPT ![i].clicks = @ + 1]
                  /\ Suspend("submit.click")
                  /\ UNCHANGED <<i, status, notes, meta, calls, row, thrown>>
             ELSE Record("skipped", "no submit button", hist[i])
       \/ \E msg \in Messages : Catch(msg)
    /\ UNCHANGED dom
    /\ AutoFrame

\* hasSubmit is known: the click is issued when the flag is set, the URL is
\* skipped otherwise
SubmitCount ==
    /\ pc = "submit.count"
    /\ \/ /\ tabOpen
          /\ IF SubmitControl(dom) # 0 /\ autoSubmit
             THEN /\ hist' = [hist EXCEPT ![i].clicks = @ + 1]
                  /\ Suspend("submit.click")
                  /\ UNCHANGED <<i, status, notes, meta, calls, row, thrown>>
             ELSE IF SubmitControl(dom) # 0
             THEN Record("skipped", "autoSubmit=false", hist[i])
             ELSE Record("skipped", "no submit button", hist[i])
       \/ \E msg \in Messages : Catch(msg)
    /\ UNCHANGED dom
    /\ AutoFrame

\* a click followed by a wait for the tab to be closed
SubmitClickThenHold ==
    /\ pc = "submit.click"
    /\ Continue("waitForEvent")
    /\ UNCHANGED dom
    /\ AutoFrame

\* await submit.click().catch(() => {}); status = 'clicked'
SubmitClick ==
    /\ pc = "submit.click"
    /\ Record("clicked", notes,
              IF tabOpen /\ CanClick(dom[SubmitControl(dom)])
              THEN [hist[i] EXCEPT !.activated = @ + 1]
              ELSE hist[i])
    /\ UNCHANGED dom
    /\ AutoFrame

\* runBatch(urls, options) has been called and is suspended on ensureOutFiles
InitAuto ==
    /\ pc = "ensureOutFiles"
    /\ inflight = {"ensureOutFiles"}
    /\ urls \in 1..MaxUrls
    /\ i = 0
    /\ user = Config("", "", "")
    /\ status = ""
    /\ notes = ""
    /\ meta = DefaultMeta
    /\ tabOpen = FALSE
    /\ browserOpen = FALSE
    /\ dom = << >>
    /\ calls = << >>
    /\ steps = << "ensureOutFiles" >>
    /\ hist = << >>
    /\ row = NoRow
    /\ csv = << >>
    /\ thrown = NoThrow
    /\ previousFieldCount = 0
    /\ stableCount = 0
    /\ elapsed = 0
    /\ polled = << >>
    /\ isStable = "pending"
    /\ waiting = "none"
    /\ autoSubmit \in BOOLEAN
    /\ stringValue = << >>
    /\ csvLine = << >>
    /\ running = FALSE
    /\ invoked = << >>
    /\ responses = << >>
    /\ file = NoFile

NextAuto ==
    \/ EnsureOutFiles
    \/ LoadUser
    \/ Launch
    \/ NewContext
    \/ NewPage
    \/ AutoGoto
    \/ SettleDelay
    \/ AutoExtractMeta
    \/ AutoFill
    \/ SubmitCount
    \/ SubmitClick
    \/ AppendCsv
    \/ ContextClose
    \/ BrowserClose

SpecAuto == InitAuto /\ [][NextAuto]_vars

\* C20: with the flag set and a submit control on the page, exactly one click
\* is made on that control (and it activates it when the control takes
\* clicks), the row says clicked, and the steps of the URL end with the click
\* and the append: at no point does the batch wait for the tab to be closed.
C20_AutoSubmitClicks ==
    /\ pc \notin {"showHoldBanner", "waitForEvent"}
    /\ \A n \in 1..Len(hist) : hist[n].clicks <= 1 /\ ~hist[n].closed
    /\ \A n \in 1..Len(csv) : csv[n].status = "clicked" => hist[n].clicks = 1
    /\ (pc = "appendCsv" /\ autoSubmit /\ hist[i].caught = "none"
        /\ SubmitControl(dom) # 0) =>
          /\ row.status = "clicked"
          /\ hist[i].clicks = 1
          /\ CanClick(dom[SubmitControl(dom)]) => hist[i].activated = 1
          /\ steps = << "goto", "waitForTimeout", "extractMeta", "fill",
                        "submit.count", "submit.click", "appendCsv" >>

C20_Witness ==
    /\ pc = "appendCsv"
    /\ autoSubmit
    /\ row.status = "clicked"
    /\ hist[i].clicks = 1
    /\ hist[i].activated = 1

\* C21: with the flag off no click is ever made: a page with a submit control
\* is recorded skipped with the notes autoSubmit=false; and a page without a
\* submit control is recorded skipped, with no click, whatever the flag.
C21_NoClickWhenOff ==
    /\ ~autoSubmit =>
          /\ pc # "submit.click"
          /\ \A n \in 1..Len(hist) : hist[n].clicks = 0 /\ hist[n].activated = 0
          /\ \A n \in 1..Len(csv) : csv[n].status # "clicked"
    /\ (pc = "appendCsv" /\ hist[i].caught = "none") =>
          /\ (SubmitControl(dom) # 0 /\ ~autoSubmit) =>
                 row.status = "skipped" /\ row.notes = "autoSubmit=false"
          /\ SubmitControl(dom) = 0 =>
                 /\ row.status = "skipped" /\ row.notes = "no submit button"
                 /\ hist[i].clicks = 0

C21_Witness ==
    /\ pc = "appendCsv"
    /\ ~autoSubmit
    /\ SubmitControl(dom) # 0
    /\ CanClick(dom[SubmitControl(dom)])
    /\ row.status = "skipped"
    /\ row.notes = "autoSubmit=false"

-----------------------------------------------------------------------------
(* The HTTP server: POST /jobs starts a batch unless one is running *)

\* requests one run of the server receives
MaxRequests == 3

\* body.autoSubmit as the client sends it
BodyFlags == {"true", "false", "absent"}

\* the second argument the handler gives runBatch: none, whatever the body holds
OptionsPassed(flag) == "absent"

\* const autoSubmit = !!options.autoSubmit
AutoSubmitOf(option) == option = "true"

\* a batch is between its invocation and the settling of its promise
InProgress == \E k \in 1..Len(invoked) : invoked[k].st \in {"running", "recorded"}

Respond(code, n, flag) ==
    responses' = Append(responses,
        [code |-> code, urls |-> n, autoSubmit |-> flag, during |-> InProgress])

ServerFrame ==
    UNCHANGED <<pc, inflight, urls, i, user, status, notes, meta, tabOpen, browserOpen,
                dom, calls, steps, hist, row, csv, thrown, previousFieldCount,
                stableCount, elapsed, polled, isStable, waiting, autoSubmit,
                stringValue, csvLine, file>>

\* a handler that starts a batch without looking at the flag
PostJobsNoFlagCheck ==
    /\ Len(responses) < MaxRequests
    /\ \E n \in 0..1, flag \in BodyFlags :
          IF n = 0
          THEN Respond(400, n, flag) /\ UNCHANGED <<running, invoked>>
          ELSE /\ running' = TRUE
               /\ invoked' = Append(invoked,
                     [req |-> Len(responses) + 1,
                      autoSubmit |-> AutoSubmitOf(OptionsPassed(flag)),
                      st |-> "running", outcome |-> "pending",
                      hasSubmit |-> FALSE, clicks |-> 0])
               /\ Respond(200, n, flag)
    /\ ServerFrame

\* app.post('/jobs'): the handler runs to its response without an await
PostJobs ==
    /\ Len(responses) < MaxRequests
    /\ \E n \in 0..1, flag \in BodyFlags :
          IF n = 0
          THEN Respond(400, n, flag) /\ UNCHANGED <<running, invoked>>
          ELSE IF running
          THEN Respond(409, n, flag) /\ UNCHANGED <<running, invoked>>
          ELSE /\ running' = TRUE
               /\ invoked' = Append(invoked,
                     [req |-> Len(responses) + 1,
                      autoSubmit |-> AutoSubmitOf(OptionsPassed(flag)),
                      st |-> "running", outcome |-> "pending",
                      hasSubmit |-> FALSE, clicks |-> 0])
               /\ Respond(200, n, flag)
    /\ ServerFrame

\* the running batch reaches the submit step of a URL: it clicks when the page
\* has a submit control and its flag is set
BatchSubmitStep ==
    /\ \E k \in 1..Len(invoked), page \in AutoPages :
          /\ invoked[k].st = "running"
          /\ invoked' = [invoked EXCEPT
                ![k].st = "recorded",
                ![k].hasSubmit = SubmitControl(page) # 0,
                ![k].clicks = IF SubmitControl(page) # 0 /\ invoked[k].autoSubmit
                              THEN @ + 1 ELSE @]
    /\ UNCHANGED <<running, responses>>
    /\ ServerFrame

Outcomes == {"fulfilled", "rejected"}

\* a flag cleared by a callback that runs on fulfilment only
BatchSettlesThen ==
    /\ \E k \in 1..Len(invoked), outcome \in Outcomes :
          /\ invoked[k].st \in {"running", "recorded"}
          /\ invoked' = [invoked EXCEPT ![k].st = "over", ![k].outcome = outcome]
          /\ running' = IF outcome = "fulfilled" THEN FALSE ELSE running
    /\ UNCHANGED responses
    /\ ServerFrame

\* the promise runBatch returned settles, fulfilled or rejected (at start, or
\* after some URLs), and the callbacks chained on it run before the server
\* handles anything else: .catch(...) logs, .finally(() => { running = false; })
BatchSettles ==
    /\ \E k \in 1..Len(invoked), outcome \in Outcomes :
          /\ invoked[k].st \in {"running", "recorded"}
          /\ invoked' = [invoked EXCEPT ![k].st = "over", ![k].outcome = outcome]
    /\ running' = FALSE
    /\ UNCHANGED responses
    /\ ServerFrame

InitServer ==
    /\ pc = "idle"
    /\ inflight = {}
    /\ urls = 1
    /\ i = 0
    /\ user = Config("", "", "")
    /\ status = ""
    /\ notes = ""
    /\ meta = DefaultMeta
    /\ tabOpen = FALSE
    /\ browserOpen = FALSE
    /\ dom = << >>
    /\ calls = << >>
    /\ steps = << >>
    /\ hist = << >>
    /\ row = NoRow
    /\ csv = << >>
    /\ thrown = NoThrow
    /\ previousFieldCount = 0
    /\ stableCount = 0
    /\ elapsed = 0
    /\ polled = << >>
    /\ isStable = "pending"
    /\ waiting = "none"
    /\ autoSubmit = FALSE
    /\ stringValue = << >>
    /\ csvLine = << >>
    /\ file = NoFile
    /\ running = FALSE
    /\ invoked = << >>
    /\ responses = << >>

NextServer ==
    \/ PostJobs
    \/ BatchSubmitStep
    \/ BatchSettles

SpecServer == InitServer /\ [][NextServer]_vars

\* C22: at most one batch is in progress at any time, the flag is set while one
\* is, and a POST /jobs with a non-empty URL list that arrives while a batch is
\* running is answered 409 and invokes no runBatch.
C22_OneBatchAtATime ==
    /\ Cardinality({k \in 1..Len(invoked) : invoked[k].st # "over"}) <= 1
    /\ InProgress => running
    /\ \A r \in 1..Len(responses) :
          (responses[r].urls > 0 /\ responses[r].during) =>
              /\ responses[r].code = 409
              /\ \A k \in 1..Len(invoked) : invoked[k].req # r

\* a request was refused during the first batch and a later one started a second
C22_Witness ==
    /\ Len(invoked) = 2
    /\ \E r \in 1..Len(responses) :
          responses[r].code = 409 /\ responses[r].during /\ responses[r].urls > 0

\* C24: the autoSubmit value of the batch request decides the submit step: a
\* batch started by a request with autoSubmit true clicks the submit control of
\* a page that has one, and a batch started by a request whose autoSubmit is
\* false or absent never clicks.
C24_RequestDecidesSubmit ==
    \A k \in 1..Len(invoked) :
       LET request == responses[invoked[k].req] IN
       /\ (request.autoSubmit = "true" /\ invoked[k].hasSubmit) =>
              invoked[k].clicks >= 1
       /\ request.autoSubmit # "true" => invoked[k].clicks = 0

-----------------------------------------------------------------------------
(* The FILL step alone, on pages built from the controls the cascades tell apart *)

Radio(grp, opt) ==
    [Ctl("radio", None, None, None, 1, TRUE, TRUE) EXCEPT !.grp = grp, !.opt = opt]

FillShapes ==
    { Text("salary", "salary", None),
      Text("phone", None, None),
      Ctl("text", "phone", None, None, 1, FALSE, TRUE),
      Text(None, "phone", "phone"),
      [Text(None, None, None) EXCEPT !.near = "phone"],
      Text(None, "linkedin", None),
      [Text(None, None, None) EXCEPT !.url = TRUE],
      Radio("gender", FALSE),
      Radio("gender", TRUE),
      Radio(None, TRUE),
      [Ctl("select", None, "country", None, 1, TRUE, TRUE) EXCEPT !.opt = TRUE],
      Text(None, "notice", None) }

FillPages == PagesUpTo(FillShapes, MaxControls)

\* the profiles loadUser returns
Profiles == { loadUser(cfg) : cfg \in {c \in Configs : LoadUserOk(c)} }

\* runBatch is about to fill the page of its first URL
InitFill ==
    /\ pc = "fill"
    /\ inflight = {"fill"}
    /\ urls = 1
    /\ i = 1
    /\ user \in Profiles
    /\ status = "error"
    /\ notes = ""
    /\ meta = DefaultMeta
    /\ tabOpen \in BOOLEAN
    /\ browserOpen = TRUE
    /\ dom \in FillPages
    /\ calls = << >>
    /\ steps = << "goto", "waitForTimeout", "extractMeta", "waitForFormStability", "fill" >>
    /\ hist = << NoEvent >>
    /\ row = NoRow
    /\ csv = << >>
    /\ thrown = NoThrow
    /\ previousFieldCount = 0
    /\ stableCount = 0
    /\ elapsed = 0
    /\ polled = << >>
    /\ isStable = "pending"
    /\ waiting = "none"
    /\ autoSubmit = FALSE
    /\ stringValue = << >>
    /\ csvLine = << >>
    /\ file = NoFile
    /\ running = FALSE
    /\ invoked = << >>
    /\ responses = << >>

NextFill == Fill

SpecFill == InitFill /\ [][NextFill]_vars

\* the registry key whose labels back up a generic field type
LabelKey(fieldType) == IF fieldType = "website" THEN "personalUrl" ELSE fieldType

\* C25 (as claimed): a generic field is written through the nearby-text
\* heuristic only on a page where the label pass and the role-name pass for
\* that field find nothing to write.
C25_NearbyTextLast ==
    pc = "showHoldBanner" =>
        \A k \in 1..Len(calls) :
            (/\ calls[k].by = "fillGenericField"
             /\ calls[k].res.ok
             /\ calls[k].res.q = NPat + 1)
            => ~fillTextByLabel(dom, tabOpen, LabelKey(calls[k].field), calls[k].value).ok

\* C26 (as claimed): once a call of FILL has written a semantic field, no later
\* call probes the page or writes for that field.
C26_FirstSuccessWins ==
    pc = "showHoldBanner" =>
        \A j \in 1..Len(calls), k \in 1..Len(calls) :
            (/\ j < k
             /\ LabelKey(calls[j].field) = LabelKey(calls[k].field)
             /\ calls[j].res.ok)
            => calls[k].res.q = 0 /\ ~calls[k].res.ok

\* C27 (as claimed): the linkedin value is written into the first URL-shaped
\* input only when no earlier call of FILL wrote linkedin: the structural /
\* nearby-text resolution and the label / role resolution both returned false.
C27_UrlLastResortOnlyUnwritten ==
    pc = "showHoldBanner" =>
        \A k \in 1..Len(calls) :
            (calls[k].by = "urlFields.fill" /\ calls[k].res.ok)
            => \A j \in 1..(k - 1) : calls[j].field = "linkedin" => ~calls[j].res.ok

\* the profile attribute a call of FILL works for
AttrOf(field) ==
    CASE field = "country" -> "location"
      [] field = "tax" -> "taxResidence"
      [] field = "notice" -> "noticePeriod"
      [] field = "referred" -> "referredBy"
      [] field = "personalUrl" -> "website"
      [] OTHER -> field

OptionalFields ==
    {"phone", "salary", "linkedin", "github", "website", "personalUrl", "gender",
     "country", "tax", "notice", "referred"}

\* C28 (as claimed): FILL writes, selects or checks nothing on behalf of a
\* field whose profile attribute is absent or empty.
C28_AbsentAttributeNoWrite ==
    pc = "showHoldBanner" =>
        \A k \in 1..Len(calls) :
            (calls[k].field \in OptionalFields /\ user[AttrOf(calls[k].field)] = "")
            => ~calls[k].res.ok /\ calls[k].res.w = << >>

\* the first control that both matches pattern k of a field and is visible
VisibleMatch(page, field, k) ==
    FirstIn(page, {e \in 1..Len(page) :
        /\ (page[e].attr = field \/ field \in page[e].also) /\ page[e].k = k
        /\ \/ IsInput(page[e])
           \/ field = "salary" /\ k = NPat /\ page[e].tag = "select"
        /\ page[e].vis})

\* C29 (as claimed): the structural strategy writes the value into the first
\* control that both matches a pattern and is visible, taking the patterns in
\* order: a hidden first match does not keep a later visible match of the same
\* pattern from being the target; and no hidden control is ever written.
C29_FirstVisibleMatch ==
    (pc = "showHoldBanner" /\ tabOpen) =>
        \A c \in 1..Len(calls) :
            (calls[c].by = "fillGenericField" /\ calls[c].value # "") =>
                LET f == calls[c].field
                    ps == {k \in 1..NPat : /\ VisibleMatch(dom, f, k) # 0
                                           /\ CanFill(dom[VisibleMatch(dom, f, k)])}
                IN  /\ ps # {} =>
                          /\ calls[c].res.ok
                          /\ calls[c].res.w =
                                << Wr(VisibleMatch(dom, f, MinOf(ps)), "fill", calls[c].value) >>
                    /\ \A w \in 1..Len(calls[c].res.w) : dom[calls[c].res.w[w].el].vis

\* C30 (as claimed): on a page that has a group named by a gender label, the
\* radio clickRadioByLabel checks is a radio of that group: the whole-page
\* search is used only when the page has no such group.
C30_GroupBeforeGlobal ==
    pc = "showHoldBanner" =>
        \A c \in 1..Len(calls) :
            (/\ calls[c].by = "clickRadioByLabel"
             /\ calls[c].res.ok
             /\ \E e \in 1..Len(dom) : dom[e].grp = calls[c].field)
            => dom[calls[c].res.w[1].el].grp = calls[c].field

\* C34 (as claimed): a row says clicked only if a click call of that URL
\* activated the submit control.
C34_ClickedOnlyIfActivated ==
    /\ \A n \in 1..Len(csv) : csv[n].status = "clicked" => hist[n].activated >= 1
    /\ (pc = "appendCsv" /\ row.status = "clicked") => hist[i].activated >= 1

\* C39: the flag is set exactly while a batch is in flight: once the promise
\* of runBatch has settled, fulfilled or rejected, it is clear, and a POST
\* /jobs with a non-empty URL list that arrives when no batch is in flight is
\* answered 200 and starts a batch.
C39_FlagClearedAtEnd ==
    /\ running <=> InProgress
    /\ \A k \in 1..Len(invoked) :
          invoked[k].st = "over" <=> invoked[k].outcome \in Outcomes
    /\ \A r \in 1..Len(responses) :
          (responses[r].urls > 0 /\ ~responses[r].during) =>
              /\ responses[r].code = 200
              /\ \E k \in 1..Len(invoked) : invoked[k].req = r

\* a batch was rejected before its first submit step and the next request
\* started another
C39_Witness ==
    /\ Len(invoked) >= 2
    /\ invoked[1].outcome = "rejected" /\ invoked[1].st = "over"
    /\ ~invoked[1].hasSubmit
    /\ responses[invoked[2].req].code = 200

====
